---- MODULE Spec2Model ----
(***************************************************************************)
(* Host-based dense matrix operations of ViennaCL                          *)
(* (viennacl/linalg/host_based/matrix_operations.hpp): the blocked         *)
(* matrix-matrix product detail::prod / prod_impl, the blocked transpose   *)
(* trans, and the strided element addressing the operations share.         *)
(*                                                                         *)
(* Numeric values are exact integers plus one quiet NaN. The buffer behind *)
(* a matrix is a sequence: the element at offset x is buf[x + 1].          *)
(***************************************************************************)
EXTENDS Integers, Sequences, FiniteSets, TLC

VARIABLES
  gin,      \* prod: the call's arguments and the block sizes (fixed per call)
  gpc,      \* prod: "entry" | "loop" | "returned" | "error" | "terminated"
  data_C,   \* prod: the buffer behind C
  task,     \* prod: one record per iteration of the C2B2_idx loop
  wlog,     \* history: per logical cell of C, the write-backs it received
  oob,      \* history: a write-back addressed a cell outside C_size1 x C_size2
  tin,      \* trans: the call's arguments
  tpc,      \* trans: position in the call
  data_T,   \* trans: the buffer behind temp_trans
  tdone,    \* trans: the main-loop iterations already executed
  vin,      \* addressing: the view under examination
  vcur,     \* addressing: number of logical cells already addressed
  voff,     \* addressing: offset computed for each addressed cell
  op_in,    \* element-wise and vector operations: the call's arguments
  op_pc,    \* element-wise and vector operations: position in the call
  op_i,     \* element-wise and vector operations: loop iterations executed
  op_out,   \* element-wise and vector operations: the destination buffers
  lazy      \* lazy_program_compiler: the object, its context and the call log

gemmVars  == <<gin, gpc, data_C, task, wlog, oob>>
transVars == <<tin, tpc, data_T, tdone>>
viewVars  == <<vin, vcur, voff>>
opVars    == <<op_in, op_pc, op_i, op_out>>
lazyVars  == <<lazy>>
vars      == <<gin, gpc, data_C, task, wlog, oob, tin, tpc, data_T, tdone, vin, vcur, voff,
               op_in, op_pc, op_i, op_out, lazy>>

----------------------------------------------------------------------------
(* Bounds of the model. *)

\* largest product dimension m, k, n of the shape family
MaxDim == 3
\* largest number of threads of the parallel region
MaxThreads == 2
\* views examined for their addressing: largest size, start, stride and
\* internal size per dimension
MaxViewDim == 2
MaxStart == 1
MaxStride == 2
MaxInternal == 5
\* the number of calls made on one lazy_program_compiler
MaxCalls == 4

\* register-block sizes mr, nr the block sizer may return
RegBlockSizes == {1, 2}
\* mc / mr and nc / nr
SliverCounts == {1, 2}
\* kc
KBlockSizes == {1, 2}

----------------------------------------------------------------------------
(* NumericT: integers and a quiet NaN. *)

\* the NaN of NumericT, a value outside every range the model computes
NaN == -1000000

IsNaN(x) == x = NaN

\* x * y of NumericT
VMul(x, y) == IF IsNaN(x) \/ IsNaN(y) THEN NaN ELSE x * y

\* x + y of NumericT
VAdd(x, y) == IF IsNaN(x) \/ IsNaN(y) THEN NaN ELSE x + y

\* x > y of NumericT: false when either is NaN
VGt(x, y) == ~IsNaN(x) /\ ~IsNaN(y) /\ x > y

\* x < y of NumericT: false when either is NaN
VLt(x, y) == ~IsNaN(x) /\ ~IsNaN(y) /\ x < y

\* vcl_size_t arithmetic wraps; the modulus is scaled down to fit TLC's integers
SizeMod == 1073741824

\* a - b of vcl_size_t
USub(a, b) == (a - b) % SizeMod

Min(a, b) == IF a < b THEN a ELSE b

----------------------------------------------------------------------------
(* Element addressing. *)

\* row_major::mem_index(i, j, num_rows, num_cols)
RowMajorMemIndex(i, j, num_rows, num_cols) == i * num_cols + j

\* column_major::mem_index(i, j, num_rows, num_cols)
ColumnMajorMemIndex(i, j, num_rows, num_cols) == i + j * num_rows

RowMajorOffset_swapped(v, row, col) ==
  RowMajorMemIndex(row * v.inc2 + v.start1, col * v.inc1 + v.start2,
                   v.internal_size1, v.internal_size2)

\* offset of logical cell (row, col) of a row-major view
RowMajorOffset(v, row, col) ==
  RowMajorMemIndex(row * v.inc1 + v.start1, col * v.inc2 + v.start2,
                   v.internal_size1, v.internal_size2)

\* offset of logical cell (row, col) of a column-major view
ColumnMajorOffset(v, row, col) ==
  ColumnMajorMemIndex(row * v.inc1 + v.start1, col * v.inc2 + v.start2,
                      v.internal_size1, v.internal_size2)

\* matrix_array_wrapper::operator()(i, j): the offset it dereferences
WrapperIndex(v, i, j) ==
  IF v.row_major THEN RowMajorOffset(v, i, j) ELSE ColumnMajorOffset(v, i, j)

\* a view: addressing metadata of a matrix_base
View(rm, s1, s2, i1, i2, n1, n2, in1, in2) ==
  [row_major |-> rm, start1 |-> s1, start2 |-> s2, inc1 |-> i1, inc2 |-> i2,
   size1 |-> n1, size2 |-> n2, internal_size1 |-> in1, internal_size2 |-> in2]

\* the full matrix: start 0, stride 1, no padding
PlainView(rm, n1, n2) == View(rm, 0, 0, 1, 1, n1, n2, n1, n2)

\* a slice of a larger padded matrix
SliceView(rm, n1, n2) == View(rm, 1, 1, 2, 1, n1, n2, 2 * n1 + 1, n2 + 2)

BufLen(v) == v.internal_size1 * v.internal_size2

\* element (i, j) of the matrix a view and a buffer denote
Elem(buf, v, i, j) == buf[WrapperIndex(v, i, j) + 1]

\* the buffer of len elements whose element at offset x is f[x + 1]
Buffer(f, len) == SubSeq(f, 1, len)

----------------------------------------------------------------------------
(* detail::prod: the blocked matrix-matrix product C = alpha*op(A)*op(B) + beta*C. *)

A_size1 == gin.A.size1
A_size2 == gin.A.size2
B_size1 == gin.B.size1
B_size2 == gin.B.size2
C_size1 == gin.C.size1
C_size2 == gin.C.size2

\* "product-sizes"
m_size == IF gin.A_trans THEN A_size2 ELSE A_size1
k_size == IF gin.A_trans THEN A_size1 ELSE A_size2
n_size == IF gin.B_trans THEN B_size1 ELSE B_size2

ZeroDimension_untransposed == C_size1 = 0 \/ C_size2 = 0 \/ A_size2 = 0

\* the early return: some dimension of the product is zero
ZeroDimension == C_size1 = 0 \/ C_size2 = 0 \/ (IF gin.A_trans THEN A_size1 ELSE A_size2) = 0

\* the assertion on the block sizes get_block_sizes returned
BlockSizesOk == (gin.mc % gin.mr) = 0 /\ (gin.nc % gin.nr) = 0

num_blocks_C1 == (m_size + (gin.mc - 1)) \div gin.mc

num_blocks_C2_floor == n_size \div gin.nc

num_blocks_C2 == (n_size + (gin.nc - 1)) \div gin.nc

num_blocks_A2 == (k_size + (gin.kc - 1)) \div gin.kc
num_slivers_A == gin.mc \div gin.mr
num_slivers_B == gin.nc \div gin.nr

num_residue_slivers_A_floor == (m_size % gin.mc) \div gin.mr

num_residue_slivers_A == ((m_size % gin.mc) + (gin.mr - 1)) \div gin.mr

num_residue_slivers_B == ((n_size % gin.nc) + (gin.nr - 1)) \div gin.nr

max_sliver_B_idx(C2B2_idx) ==
  IF USub(n_size, C2B2_idx * gin.nc) < gin.nc THEN num_residue_slivers_B ELSE num_slivers_B

max_sliver_A_idx(C1A1_idx) ==
  IF USub(m_size, C1A1_idx * gin.mc) < gin.mc THEN num_residue_slivers_A ELSE num_slivers_A

num_micros_slivers_full(A2B1_idx) == gin.kc

num_micros_slivers(A2B1_idx) == Min(gin.kc, USub(k_size, A2B1_idx * gin.kc))

\* op(A)(i, p) and op(B)(p, j): the operands in product orientation
OpA(i, p) == IF gin.A_trans THEN Elem(gin.data_A, gin.A, p, i) ELSE Elem(gin.data_A, gin.A, i, p)
OpB(p, j) == IF gin.B_trans THEN Elem(gin.data_B, gin.B, j, p) ELSE Elem(gin.data_B, gin.B, p, j)

\* pack_matrix_A: the valid part of the mc x kc block at (row_off, k_off) as
\* slivers of mr rows, element (i, p) of a sliver at p*mr + i; the rest of the
\* buffer keeps what it held
pack_matrix_A(buffer_A, row_off, k_off) ==
  [x \in DOMAIN buffer_A |->
    LET sl  == x \div (gin.mr * gin.kc)
        rem == x % (gin.mr * gin.kc)
        p   == rem \div gin.mr
        i   == rem % gin.mr
        row == row_off + sl * gin.mr + i
        kk  == k_off + p
    IN  IF row < m_size /\ kk < k_size THEN OpA(row, kk) ELSE buffer_A[x]]

\* pack_matrix_B: the valid part of the kc x nc block at (k_off, col_off) as
\* slivers of nr columns, element (p, j) of a sliver at p*nr + j
pack_matrix_B(buffer_B, k_off, col_off) ==
  [x \in DOMAIN buffer_B |->
    LET sl  == x \div (gin.nr * gin.kc)
        rem == x % (gin.nr * gin.kc)
        p   == rem \div gin.nr
        j   == rem % gin.nr
        col == col_off + sl * gin.nr + j
        kk  == k_off + p
    IN  IF col < n_size /\ kk < k_size THEN OpB(kk, col) ELSE buffer_B[x]]

\* the sum over p < count of ptrA[p*mr + i] * ptrB[p*nr + j]
RECURSIVE MicroDot(_, _, _, _, _, _, _)
MicroDot(buffer_A, ptrA, buffer_B, ptrB, i, j, count) ==
  IF count = 0 THEN 0
  ELSE VAdd(MicroDot(buffer_A, ptrA, buffer_B, ptrB, i, j, count - 1),
            VMul(buffer_A[ptrA + (count - 1) * gin.mr + i],
                 buffer_B[ptrB + (count - 1) * gin.nr + j]))

\* standard_micro_kernel(ptrA, ptrB, ptrC, num_micros_slivers, mr, nr):
\* adds the mr x nr tile product to the accumulator, element (i, j) at i*nr + j
standard_micro_kernel(buffer_A, ptrA, buffer_B, ptrB, buffer_C, count) ==
  [x \in DOMAIN buffer_C |->
    VAdd(buffer_C[x],
         MicroDot(buffer_A, ptrA, buffer_B, ptrB, x \div gin.nr, x % gin.nr, count))]

\* first row and column of C the micro-tile of t covers
tile_row_start(t) == t.C1A1_idx * gin.mc + t.sliver_A_idx * gin.mr

tile_col_start_noblock(t) == t.sliver_B_idx * gin.nr

tile_col_start(t) == t.C2B2_idx * gin.nc + t.sliver_B_idx * gin.nr

row_extent_unclipped(t) == gin.mr

\* std::min(mr, m_size-(C1A1_idx*mc + sliver_A_idx*mr))
row_extent(t) == Min(gin.mr, USub(m_size, tile_row_start(t)))

\* std::min(nr, n_size-(C2B2_idx*nc + sliver_B_idx*nr))
col_extent(t) == Min(gin.nr, USub(n_size, tile_col_start(t)))

WritePath_last(t) ==
  IF VGt(gin.beta, 0) \/ VLt(gin.beta, 0) THEN "general"
  ELSE IF t.A2B1_idx + 1 = num_blocks_A2 THEN "assign" ELSE "add"

WritePath_add(t) ==
  IF VGt(gin.beta, 0) \/ VLt(gin.beta, 0) THEN "general" ELSE "add"

\* the branch of the write-back: beta > 0 || beta < 0, else A2B1_idx == 0
WritePath(t) ==
  IF VGt(gin.beta, 0) \/ VLt(gin.beta, 0) THEN "general"
  ELSE IF t.A2B1_idx = 0 THEN "assign" ELSE "add"

WriteValue_unscaled(path, old, acc) ==
  IF path = "assign" THEN VMul(gin.alpha, acc) ELSE VAdd(old, VMul(gin.alpha, acc))

\* the value a write-back stores, given the cell's old value and the tile's element
WriteValue(path, old, acc) ==
  CASE path = "general" -> VAdd(VMul(gin.beta, old), VMul(gin.alpha, acc))
    [] path = "assign"  -> VMul(gin.alpha, acc)
    [] path = "add"     -> VAdd(old, VMul(gin.alpha, acc))

\* the cells (row, column of C) the write-back loops of t visit, in loop order
TileCells(t) ==
  [x \in 1..(row_extent(t) * col_extent(t)) |->
     <<tile_row_start(t) + ((x - 1) \div col_extent(t)),
       tile_col_start(t) + ((x - 1) % col_extent(t))>>]

InC(cell) == cell[1] < C_size1 /\ cell[2] < C_size2

\* the write-back loops applied to the buffer of C, cell by cell
RECURSIVE WriteCells(_, _, _, _)
WriteCells(buf, t, cells, upto) ==
  IF upto = 0 THEN buf
  ELSE LET prev == WriteCells(buf, t, cells, upto - 1)
           cell == cells[upto]
           off  == WrapperIndex(gin.C, cell[1], cell[2])
           acc  == t.buffer_C[(cell[1] - tile_row_start(t)) * gin.nr
                              + (cell[2] - tile_col_start(t))]
       IN  IF off + 1 \in DOMAIN prev
           THEN [prev EXCEPT ![off + 1] = WriteValue(WritePath(t), prev[off + 1], acc)]
           ELSE prev

\* a scratch buffer of len elements as memory_create leaves it: not initialized
Scratch(len, g) == [x \in 0..(len - 1) |-> g]

NoBuffer == [x \in {} |-> 0]

\* what an uninitialized element may hold
Garbage == {0, NaN}

IdleTask(c) ==
  [pc |-> "idle", C2B2_idx |-> c, A2B1_idx |-> 0, C1A1_idx |-> 0,
   sliver_B_idx |-> 0, sliver_A_idx |-> 0,
   buffer_A |-> NoBuffer, buffer_B |-> NoBuffer, buffer_C |-> NoBuffer,
   events |-> <<>>]

\* history: a step of iteration t at its loop position
Event(kind, t) == <<kind, t.A2B1_idx, t.C1A1_idx, t.sliver_B_idx, t.sliver_A_idx>>

\* the loop position after the body at (A2B1_idx, C1A1_idx) has run all its slivers
NextBlock(t) ==
  IF t.C1A1_idx + 1 < num_blocks_C1
  THEN [t EXCEPT !.pc = "packA", !.C1A1_idx = t.C1A1_idx + 1,
                 !.sliver_B_idx = 0, !.sliver_A_idx = 0]
  ELSE IF t.A2B1_idx + 1 < num_blocks_A2
  THEN [t EXCEPT !.pc = "packB", !.A2B1_idx = t.A2B1_idx + 1, !.C1A1_idx = 0,
                 !.sliver_B_idx = 0, !.sliver_A_idx = 0]
  ELSE [t EXCEPT !.pc = "end"]

NextTile_nozero(t) ==
  IF t.sliver_A_idx + 1 < max_sliver_A_idx(t.C1A1_idx)
  THEN [t EXCEPT !.pc = "kernel", !.sliver_A_idx = t.sliver_A_idx + 1]
  ELSE IF t.sliver_B_idx + 1 < max_sliver_B_idx(t.C2B2_idx)
  THEN [t EXCEPT !.pc = "zero", !.sliver_B_idx = t.sliver_B_idx + 1, !.sliver_A_idx = 0]
  ELSE NextBlock(t)

\* the loop position after the micro-tile of t has been written back
NextTile(t) ==
  IF t.sliver_A_idx + 1 < max_sliver_A_idx(t.C1A1_idx)
  THEN [t EXCEPT !.pc = "zero", !.sliver_A_idx = t.sliver_A_idx + 1]
  ELSE IF t.sliver_B_idx + 1 < max_sliver_B_idx(t.C2B2_idx)
  THEN [t EXCEPT !.pc = "zero", !.sliver_B_idx = t.sliver_B_idx + 1, !.sliver_A_idx = 0]
  ELSE NextBlock(t)

Running == {c \in DOMAIN task : task[c].pc \notin {"idle", "done"}}
Unstarted == {c \in DOMAIN task : task[c].pc = "idle"}

\* prod is entered: the zero-dimension return, or the block loops are set up
ProdEntry ==
  /\ gpc = "entry"
  /\ IF ZeroDimension
     THEN /\ gpc' = "returned"
          /\ UNCHANGED task
     ELSE /\ BlockSizesOk
          /\ gpc' = "loop"
          /\ task' = [c \in 0..(num_blocks_C2 - 1) |-> IdleTask(c)]
  /\ UNCHANGED <<gin, data_C, wlog, oob>>
  /\ UNCHANGED <<transVars, viewVars, opVars, lazyVars>>

\* the numbers of elements memory_create is asked for
buffer_A_size == gin.mc * gin.kc

buffer_B_size_sliver == gin.kc * gin.nr

buffer_B_size == gin.kc * gin.nc

buffer_C_size_row == gin.nr

buffer_C_size == gin.mr * gin.nr

\* a thread enters iteration c of the C2B2_idx loop and allocates its buffers
StartIteration(c) ==
  /\ gpc = "loop"
  /\ c \in Unstarted
  /\ Cardinality(Running) < gin.threads
  /\ gin.threads = 1 => \A d \in Unstarted : c <= d
  /\ \E g \in Garbage :
       task' = [task EXCEPT ![c] =
                  [@ EXCEPT !.pc = IF 0 < num_blocks_A2 THEN "packB" ELSE "end",
                            !.buffer_A = Scratch(buffer_A_size, g),
                            !.buffer_B = Scratch(buffer_B_size, g),
                            !.buffer_C = Scratch(buffer_C_size, g)]]
  /\ UNCHANGED <<gin, gpc, data_C, wlog, oob>>
  /\ UNCHANGED <<transVars, viewVars, opVars, lazyVars>>

\* pack_matrix_B for k-block A2B1_idx of iteration c
PackB(c) ==
  /\ gpc = "loop" /\ c \in DOMAIN task /\ task[c].pc = "packB"
  /\ LET t == task[c]
         u == [t EXCEPT !.buffer_B =
                 pack_matrix_B(t.buffer_B, t.A2B1_idx * gin.kc, c * gin.nc),
                 !.C1A1_idx = 0,
                 !.events = Append(@, <<"packB", t.A2B1_idx>>)]
     IN  task' = [task EXCEPT ![c] =
                    IF 0 < num_blocks_C1 THEN [u EXCEPT !.pc = "packA"]
                    ELSE NextBlock([u EXCEPT !.C1A1_idx = num_blocks_C1])]
  /\ UNCHANGED <<gin, gpc, data_C, wlog, oob>>
  /\ UNCHANGED <<transVars, viewVars, opVars, lazyVars>>

\* pack_matrix_A for block (C1A1_idx, A2B1_idx) of iteration c
PackA(c) ==
  /\ gpc = "loop" /\ c \in DOMAIN task /\ task[c].pc = "packA"
  /\ LET t == task[c]
         u == [t EXCEPT !.buffer_A =
                 pack_matrix_A(t.buffer_A, t.C1A1_idx * gin.mc, t.A2B1_idx * gin.kc),
                 !.sliver_B_idx = 0, !.sliver_A_idx = 0,
                 !.events = Append(@, <<"packA", t.A2B1_idx, t.C1A1_idx>>)]
     IN  task' = [task EXCEPT ![c] =
                    IF 0 < max_sliver_B_idx(c) /\ 0 < max_sliver_A_idx(t.C1A1_idx)
                    THEN [u EXCEPT !.pc = "zero"]
                    ELSE NextBlock(u)]
  /\ UNCHANGED <<gin, gpc, data_C, wlog, oob>>
  /\ UNCHANGED <<transVars, viewVars, opVars, lazyVars>>

\* buffer_C is filled with zeros
ZeroAccumulator(c) ==
  /\ gpc = "loop" /\ c \in DOMAIN task /\ task[c].pc = "zero"
  /\ task' = [task EXCEPT ![c] =
                [@ EXCEPT !.pc = "kernel",
                          !.buffer_C = [x \in DOMAIN @ |-> 0],
                          !.events = Append(@, Event("zero", task[c]))]]
  /\ UNCHANGED <<gin, gpc, data_C, wlog, oob>>
  /\ UNCHANGED <<transVars, viewVars, opVars, lazyVars>>

\* the micro-kernel is called on the two slivers
MicroKernel(c) ==
  /\ gpc = "loop" /\ c \in DOMAIN task /\ task[c].pc = "kernel"
  /\ LET t == task[c]
     IN  task' = [task EXCEPT ![c] =
                    [t EXCEPT !.pc = "write",
                              !.buffer_C =
                                standard_micro_kernel(
                                  t.buffer_A, t.sliver_A_idx * gin.mr * gin.kc,
                                  t.buffer_B, t.sliver_B_idx * gin.nr * gin.kc,
                                  t.buffer_C, num_micros_slivers(t.A2B1_idx)),
                              !.events = Append(@, Event("kernel", t))]]
  /\ UNCHANGED <<gin, gpc, data_C, wlog, oob>>
  /\ UNCHANGED <<transVars, viewVars, opVars, lazyVars>>

\* the tile is written back to C and the sliver loops advance
WriteBack(c) ==
  /\ gpc = "loop" /\ c \in DOMAIN task /\ task[c].pc = "write"
  /\ LET t     == task[c]
         cells == TileCells(t)
         hit   == {cells[x] : x \in DOMAIN cells}
     IN  /\ data_C' = WriteCells(data_C, t, cells, Len(cells))
         /\ wlog' = [cell \in DOMAIN wlog |->
                       IF cell \in hit
                       THEN Append(wlog[cell], <<c, t.A2B1_idx, WritePath(t)>>)
                       ELSE wlog[cell]]
         /\ oob' = (oob \/ \E cell \in hit : ~InC(cell))
         /\ task' = [task EXCEPT ![c] =
                        NextTile([t EXCEPT !.events = Append(@, Event("write", t))])]
  /\ UNCHANGED <<gin, gpc>>
  /\ UNCHANGED <<transVars, viewVars, opVars, lazyVars>>

\* iteration c ends: its buffers are released
EndIteration(c) ==
  /\ gpc = "loop" /\ c \in DOMAIN task /\ task[c].pc = "end"
  /\ task' = [task EXCEPT ![c] =
                [@ EXCEPT !.pc = "done", !.buffer_A = NoBuffer,
                          !.buffer_B = NoBuffer, !.buffer_C = NoBuffer]]
  /\ UNCHANGED <<gin, gpc, data_C, wlog, oob>>
  /\ UNCHANGED <<transVars, viewVars, opVars, lazyVars>>

\* every iteration of the C2B2_idx loop has ended: prod returns
ProdReturn ==
  /\ gpc = "loop"
  /\ \A c \in DOMAIN task : task[c].pc = "done"
  /\ gpc' = "returned"
  /\ UNCHANGED <<gin, data_C, task, wlog, oob>>
  /\ UNCHANGED <<transVars, viewVars, opVars, lazyVars>>

----------------------------------------------------------------------------
(* The calls of prod the model examines. *)

\* get_block_sizes: the block sizes it may return, mc and nc multiples of mr and nr
BlockPlans ==
  {[mr |-> a, nr |-> b, mc |-> a * qa, nc |-> b * qb, kc |-> kc] :
     a \in RegBlockSizes, b \in RegBlockSizes,
     qa \in SliverCounts, qb \in SliverCounts, kc \in KBlockSizes}

\* buffer contents with pairwise distinct elements
PatternA(len) == Buffer([x \in 1..len |-> x], len)
PatternB(len) == Buffer([x \in 1..len |-> 2 * x - 1], len)
\* previous contents of C: numbers and NaN
PatternC(len) == Buffer([x \in 1..len |-> IF x % 2 = 0 THEN NaN ELSE x + 4], len)

\* one call prod_impl(A, trans_A, B, trans_B, C, alpha, beta), with the block
\* sizes and the number of threads it runs with
GemmCall(vA, tA, vB, tB, vC, dA, dB, dC, alpha, beta, plan, threads) ==
  [A |-> vA, A_trans |-> tA, B |-> vB, B_trans |-> tB, C |-> vC,
   data_A |-> dA, data_B |-> dB, C0 |-> dC, alpha |-> alpha, beta |-> beta,
   mr |-> plan.mr, nr |-> plan.nr, mc |-> plan.mc, nc |-> plan.nc, kc |-> plan.kc,
   threads |-> threads, openmp |-> threads > 1, alloc_may_fail |-> FALSE]

\* A and B of an m x k times k x n product, stored as the flags say
OperandA(rm, tA, m, k) == PlainView(rm, IF tA THEN k ELSE m, IF tA THEN m ELSE k)
OperandB(rm, tB, k, n) == PlainView(rm, IF tB THEN n ELSE k, IF tB THEN k ELSE n)

PatternCall(m, k, n, tA, tB, Arm, Brm, vC, alpha, beta, plan, threads) ==
  GemmCall(OperandA(Arm, tA, m, k), tA, OperandB(Brm, tB, k, n), tB, vC,
           PatternA(BufLen(OperandA(Arm, tA, m, k))),
           PatternB(BufLen(OperandB(Brm, tB, k, n))),
           PatternC(BufLen(vC)), alpha, beta, plan, threads)

\* every shape up to MaxDim (zero dimensions included) under every block plan
ShapeCalls ==
  {PatternCall(m, k, n, FALSE, FALSE, TRUE, TRUE, PlainView(TRUE, m, n), 3, beta, plan, 1) :
     m \in 0..MaxDim, k \in 0..MaxDim, n \in 0..MaxDim,
     beta \in {0, 2}, plan \in BlockPlans}

\* every layout and transposition of A, B, C, with C plain or a slice
LayoutCalls ==
  {PatternCall(3, 2, 2, tA, tB, Arm, Brm,
               IF slice THEN SliceView(Crm, 3, 2) ELSE PlainView(Crm, 3, 2),
               3, beta, [mr |-> 2, nr |-> 1, mc |-> 2, nc |-> 1, kc |-> 1], 1) :
     tA \in BOOLEAN, tB \in BOOLEAN, Arm \in BOOLEAN, Brm \in BOOLEAN,
     Crm \in BOOLEAN, slice \in BOOLEAN, beta \in {0, 2}}

Elements == {-1, 2}
Alphas   == {-1, 0, 2}
Betas    == {-1, 0, 2, NaN}

\* every content of a 1 x 2 times 2 x 1 product, every alpha and beta
ValueCalls ==
  {GemmCall(PlainView(TRUE, 1, 2), FALSE, PlainView(TRUE, 2, 1), FALSE,
            PlainView(TRUE, 1, 1), dA, dB, dC, alpha, beta,
            [mr |-> 1, nr |-> 1, mc |-> 1, nc |-> 1, kc |-> kc], 1) :
     dA \in [1..2 -> Elements], dB \in [1..2 -> Elements],
     dC \in [1..1 -> Elements \cup {NaN}],
     alpha \in Alphas, beta \in Betas, kc \in KBlockSizes}

\* products whose C2B2_idx loop has several iterations, run by 1..MaxThreads threads
ParallelCalls ==
  {PatternCall(2, k, n, FALSE, TRUE, TRUE, FALSE, PlainView(Crm, 2, n), 3, beta,
               [mr |-> 2, nr |-> b, mc |-> 2, nc |-> b * qb, kc |-> 1], threads) :
     k \in {0, 2}, n \in 1..MaxDim, Crm \in BOOLEAN, beta \in {0, 2},
     b \in RegBlockSizes, qb \in SliverCounts, threads \in 1..MaxThreads}

TransIdle == tin = 0 /\ tpc = "off" /\ data_T = 0 /\ tdone = 0
ViewIdle  == vin = 0 /\ vcur = -1 /\ voff = 0
GemmIdle  == gin = 0 /\ gpc = "off" /\ data_C = 0 /\ task = 0 /\ wlog = 0 /\ oob = FALSE
OpIdle    == op_in = 0 /\ op_pc = "off" /\ op_i = 0 /\ op_out = 0
LazyIdle  == lazy = 0

GemmInit(calls) ==
  /\ gin \in calls
  /\ gpc = "entry"
  /\ data_C = gin.C0
  /\ task = NoBuffer
  /\ wlog = [cell \in (0..(gin.C.size1 - 1)) \X (0..(gin.C.size2 - 1)) |-> <<>>]
  /\ oob = FALSE
  /\ TransIdle /\ ViewIdle /\ OpIdle /\ LazyIdle

\* products with a zero dimension, A and B transposed or not
ZeroCalls ==
  {PatternCall(m, k, n, tA, tB, TRUE, FALSE, PlainView(TRUE, m, n), 3, beta,
               [mr |-> 1, nr |-> 1, mc |-> 1, nc |-> 1, kc |-> 1], 1) :
     m \in 0..1, k \in 0..1, n \in 0..1, tA \in BOOLEAN, tB \in BOOLEAN,
     beta \in {0, 2}}

Init == GemmInit(ShapeCalls \cup LayoutCalls \cup ValueCalls \cup ZeroCalls)

InitPar == GemmInit(ParallelCalls)

Next ==
  \/ ProdEntry
  \/ \E c \in DOMAIN task : StartIteration(c)
  \/ \E c \in DOMAIN task : PackB(c)
  \/ \E c \in DOMAIN task : PackA(c)
  \/ \E c \in DOMAIN task : ZeroAccumulator(c)
  \/ \E c \in DOMAIN task : MicroKernel(c)
  \/ \E c \in DOMAIN task : WriteBack(c)
  \/ \E c \in DOMAIN task : EndIteration(c)
  \/ ProdReturn

\* prod_impl, single-threaded
Spec == Init /\ [][Next]_vars

\* prod_impl with the C2B2_idx loop run by a team of threads
SpecPar == InitPar /\ [][Next]_vars

----------------------------------------------------------------------------
(* Properties of prod. *)

\* the sum over q < p of op(A)(i, q) * op(B)(q, j)
RECURSIVE RefDot(_, _, _)
RefDot(i, j, p) ==
  IF p = 0 THEN 0 ELSE VAdd(RefDot(i, j, p - 1), VMul(OpA(i, p - 1), OpB(p - 1, j)))

LogicalCells == (0..(C_size1 - 1)) \X (0..(C_size2 - 1))

C_now(cell)  == Elem(data_C, gin.C, cell[1], cell[2])
C_init(cell) == Elem(gin.C0, gin.C, cell[1], cell[2])

\* the naive triple-loop reference alpha*op(A)*op(B) + beta*C
Reference(cell) ==
  VAdd(VMul(gin.alpha, RefDot(cell[1], cell[2], k_size)), VMul(gin.beta, C_init(cell)))

Returned == gpc = "returned"

\* C1: for m, k, n >= 1 and numeric alpha, beta and C, prod_impl leaves
\* C(i,j) = alpha * SUM_p op(A)(i,p)*op(B)(p,j) + beta * C_initial(i,j).
C1_MatchesReference ==
  (Returned /\ m_size >= 1 /\ k_size >= 1 /\ n_size >= 1 /\ ~IsNaN(gin.beta))
    => \A cell \in LogicalCells : ~IsNaN(C_init(cell)) => C_now(cell) = Reference(cell)

\* C2 as stated: with beta = 0 every cell ends as alpha * SUM_{p<k} op(A)op(B),
\* whatever C held, for any k.
C2_BetaZeroOverwritesAnyK ==
  (Returned /\ gin.beta = 0)
    => \A cell \in LogicalCells :
         C_now(cell) = VMul(gin.alpha, RefDot(cell[1], cell[2], k_size))

\* C2 amended: with beta = 0 and k >= 1 every cell ends as
\* alpha * SUM_{p<k} op(A)op(B), whatever C held (NaN included), for any
\* number of k-blocks.
C2_BetaZeroOverwrites ==
  (Returned /\ gin.beta = 0 /\ k_size >= 1)
    => \A cell \in LogicalCells :
         C_now(cell) = VMul(gin.alpha, RefDot(cell[1], cell[2], k_size))

C2_Witness ==
  /\ Returned /\ gin.beta = 0 /\ num_blocks_A2 >= 2
  /\ \E cell \in LogicalCells : IsNaN(C_init(cell)) /\ ~IsNaN(C_now(cell))

\* C3: with m = 0, n = 0 or k = 0 prod returns at once: no block loop is set
\* up, nothing is allocated or written, C is unchanged, for every beta.
C3_ZeroDimensionIdentity ==
  (gpc # "entry" /\ (C_size1 = 0 \/ C_size2 = 0 \/ k_size = 0))
    => /\ Returned
       /\ task = NoBuffer
       /\ data_C = gin.C0
       /\ \A cell \in DOMAIN wlog : wlog[cell] = <<>>

C3_Witness ==
  Returned /\ k_size = 0 /\ gin.A_trans /\ C_size1 > 0 /\ C_size2 > 0 /\ gin.beta = 0

\* the write-backs logged so far, as <<C2B2_idx, A2B1_idx, path>>
Logged == UNION {{wlog[cell][x] : x \in DOMAIN wlog[cell]} : cell \in DOMAIN wlog}

\* C4 as stated: with beta NaN every write-back takes the general path
\* C := beta*C + alpha*tile.
C4_NaNBetaGeneralPath ==
  IsNaN(gin.beta) => \A e \in Logged : e[3] = "general"

\* what the code does with beta NaN: both comparisons are false, so every
\* write-back takes the zero path (assign alpha*tile in k-block 0, add
\* alpha*tile in later k-blocks) and C ends as alpha * SUM op(A)op(B)
\* without NaN.
C4_NaNBetaZeroPath ==
  IsNaN(gin.beta)
    => /\ \A e \in Logged : e[3] = (IF e[2] = 0 THEN "assign" ELSE "add")
       /\ Returned => \A cell \in LogicalCells :
            C_now(cell) = VMul(gin.alpha, RefDot(cell[1], cell[2], k_size))

\* the number of write-backs cell received in k-block kb
WritesIn(cell, kb) == Cardinality({x \in DOMAIN wlog[cell] : wlog[cell][x][2] = kb})

\* C5: whatever the remainders of m and n, no cell is written back twice in
\* a k-block, and when prod returns every cell i < m, j < n has been written
\* back exactly once in each k-block.
C5_EachCellOncePerKBlock ==
  ~ZeroDimension
    => \A cell \in DOMAIN wlog : \A kb \in 0..(num_blocks_A2 - 1) :
         /\ WritesIn(cell, kb) <= 1
         /\ Returned => WritesIn(cell, kb) = 1

C5_Witness ==
  /\ Returned /\ ~ZeroDimension
  /\ m_size % gin.mc # 0 /\ m_size % gin.mr # 0 /\ num_blocks_C1 >= 2
  /\ n_size % gin.nc # 0 /\ n_size % gin.nr # 0
  /\ \A cell \in DOMAIN wlog : Len(wlog[cell]) = num_blocks_A2

InTile(t) == t.pc \in {"zero", "kernel", "write"}

\* C6: no write-back addresses a cell outside C_size1 x C_size2: every
\* micro-tile visited starts inside the matrix, so the unsigned differences do
\* not wrap and the extents are min(mr, m - row start), min(nr, n - col start).
C6_WriteBackInBounds ==
  /\ ~oob
  /\ \A c \in DOMAIN task : InTile(task[c]) =>
       /\ tile_row_start(task[c]) < m_size
       /\ tile_col_start(task[c]) < n_size
       /\ row_extent(task[c]) = Min(gin.mr, m_size - tile_row_start(task[c]))
       /\ col_extent(task[c]) = Min(gin.nr, n_size - tile_col_start(task[c]))

C6_Witness ==
  \E c \in DOMAIN task :
    /\ task[c].pc = "end"
    /\ m_size % gin.mr # 0 /\ n_size % gin.nr # 0
    /\ Len(wlog[<<m_size - 1, n_size - 1>>]) > 0

\* the columns iteration c of the C2B2_idx loop owns
ColumnsOf(c) == {j \in 0..(n_size - 1) : c * gin.nc <= j /\ j < (c + 1) * gin.nc}

\* C7: a cell is written only by the iteration that owns its column, the
\* iterations' column ranges are pairwise disjoint and cover [0, n), and when
\* prod returns every cell has been written by its iteration.
C7_ColumnRangesPartition ==
  ~ZeroDimension =>
    /\ \A cell \in DOMAIN wlog : \A x \in DOMAIN wlog[cell] :
         /\ wlog[cell][x][1] \in DOMAIN task
         /\ cell[2] \in ColumnsOf(wlog[cell][x][1])
    /\ gpc = "loop" =>
         /\ \A c, d \in DOMAIN task : c # d => ColumnsOf(c) \cap ColumnsOf(d) = {}
         /\ UNION {ColumnsOf(c) : c \in DOMAIN task} = 0..(n_size - 1)
    /\ Returned => \A cell \in DOMAIN wlog : Len(wlog[cell]) > 0

C7_Witness ==
  \E c, d \in DOMAIN task :
    /\ c # d /\ task[c].pc = "write" /\ task[d].pc = "write"
    /\ Len(wlog[<<0, tile_col_start(task[c])>>]) > 0
    /\ Len(wlog[<<0, tile_col_start(task[d])>>]) > 0

\* the value of a cell after the write-backs of k-blocks 0 .. kb-1, in order
RECURSIVE CellAfter(_, _)
CellAfter(cell, kb) ==
  IF kb = 0 THEN C_init(cell)
  ELSE LET lo == (kb - 1) * gin.kc
           hi == Min(kb * gin.kc, k_size)
           path == IF VGt(gin.beta, 0) \/ VLt(gin.beta, 0) THEN "general"
                   ELSE IF kb = 1 THEN "assign" ELSE "add"
       IN  WriteValue(path, CellAfter(cell, kb - 1),
                      VAdd(RefDot(cell[1], cell[2], hi),
                           VMul(-1, RefDot(cell[1], cell[2], lo))))

\* the buffer of C after a run of the loops in program order
SequentialResult ==
  [x \in DOMAIN gin.C0 |->
     IF \E cell \in LogicalCells : WrapperIndex(gin.C, cell[1], cell[2]) + 1 = x
     THEN CellAfter(CHOOSE cell \in LogicalCells :
                      WrapperIndex(gin.C, cell[1], cell[2]) + 1 = x, num_blocks_A2)
     ELSE gin.C0[x]]

\* C8: the final C is the same for every number of threads, every assignment
\* of iterations to threads and every interleaving: it is the result of the
\* loops run in program order.
C8_ScheduleIndependent ==
  (Returned /\ ~ZeroDimension) => data_C = SequentialResult

C8_Witness ==
  /\ Returned /\ gin.threads >= 2 /\ num_blocks_C2 >= 3 /\ num_blocks_A2 >= 2
  /\ gin.beta # 0

----------------------------------------------------------------------------
(* trans: the blocked out-of-place transpose temp_trans = trans(A). *)

\* the matrix is divided into sub-matrices of this edge
sub_mat_size == 64

\* minimum size1*size2 for running a matrix loop in parallel
VIENNACL_OPENMP_MATRIX_MIN_SIZE == 5000

row_count == tin.A.size1 \div sub_mat_size
col_count == tin.A.size2 \div sub_mat_size
row_count_remainder == tin.A.size1 % sub_mat_size
col_count_remainder == tin.A.size2 % sub_mat_size

\* the wrapper of view v whose origin is moved to logical cell (r0, c0)
WrapperAt(v, r0, c0) ==
  [v EXCEPT !.start1 = v.start1 + v.inc1 * r0, !.start2 = v.start2 + v.inc2 * c0]

\* the physical (row, column) that mem_index maps to offset x
PhysRow(v, x) == IF v.row_major THEN x \div v.internal_size2 ELSE x % v.internal_size1
PhysCol(v, x) == IF v.row_major THEN x % v.internal_size2 ELSE x \div v.internal_size1

\* offset x is wrapper w's cell (p, q) for some p < n1, q < n2
Covers(w, x, n1, n2) ==
  /\ PhysRow(w, x) >= w.start1 /\ (PhysRow(w, x) - w.start1) % w.inc1 = 0
  /\ (PhysRow(w, x) - w.start1) \div w.inc1 < n1
  /\ PhysCol(w, x) >= w.start2 /\ (PhysCol(w, x) - w.start2) % w.inc2 = 0
  /\ (PhysCol(w, x) - w.start2) \div w.inc2 < n2

\* the loop nest "for p < n1, q < n2: wrapper_B(p, q) = wrapper_A(q, p)" applied
\* to the destination buffer; the views lie within their internal sizes, so an
\* offset belongs to at most one cell
CopyTransposed(buf, src, wA, wB, n1, n2) ==
  Buffer([y \in 1..Len(buf) |->
            IF Covers(wB, y - 1, n1, n2)
            THEN Elem(src, wA, (PhysCol(wB, y - 1) - wB.start2) \div wB.inc2,
                               (PhysRow(wB, y - 1) - wB.start1) \div wB.inc1)
            ELSE buf[y]], Len(buf))

\* iteration i of the main loop: one sub_mat_size x sub_mat_size sub-matrix
TransMainBlock(buf, i) ==
  LET row == i \div col_count
      col == i % col_count
  IN  CopyTransposed(buf, tin.data_A,
                     WrapperAt(tin.A, row * sub_mat_size, col * sub_mat_size),
                     WrapperAt(tin.B, col * sub_mat_size, row * sub_mat_size),
                     sub_mat_size, sub_mat_size)

right_rows_main == row_count * sub_mat_size

\* rows of A the right-side remainder loop runs over
right_rows == tin.A.size1

\* the remainder on the right side of the matrix
TransRightRemainder(buf) ==
  CopyTransposed(buf, tin.data_A,
                 WrapperAt(tin.A, 0, col_count * sub_mat_size),
                 WrapperAt(tin.B, col_count * sub_mat_size, 0),
                 col_count_remainder, right_rows)

bottom_cols_all == tin.A.size2

\* columns of A the bottom remainder loop runs over
bottom_cols == tin.A.size2 - col_count_remainder

\* the remainder on the bottom side of the matrix
TransBottomRemainder(buf) ==
  CopyTransposed(buf, tin.data_A,
                 WrapperAt(tin.A, row_count * sub_mat_size, 0),
                 WrapperAt(tin.B, 0, row_count * sub_mat_size),
                 bottom_cols, row_count_remainder)

TransParallel == (tin.A.size1 * tin.A.size2) > VIENNACL_OPENMP_MATRIX_MIN_SIZE

MainIterations == 0..(row_count * col_count - 1)

\* one iteration of the main loop; in any order when the loop runs in parallel
TransMain(i) ==
  /\ tpc = "main"
  /\ i \in MainIterations \ tdone
  /\ TransParallel \/ \A j \in MainIterations \ tdone : i <= j
  /\ data_T' = TransMainBlock(data_T, i)
  /\ tdone' = tdone \cup {i}
  /\ UNCHANGED <<tin, tpc>>
  /\ UNCHANGED <<gemmVars, viewVars, opVars, lazyVars>>

\* after the main loop: the right-side remainder
TransRight ==
  /\ tpc = "main"
  /\ tdone = MainIterations
  /\ data_T' = TransRightRemainder(data_T)
  /\ tpc' = "bottom"
  /\ UNCHANGED <<tin, tdone>>
  /\ UNCHANGED <<gemmVars, viewVars, opVars, lazyVars>>

\* the bottom remainder; trans returns
TransBottom ==
  /\ tpc = "bottom"
  /\ data_T' = TransBottomRemainder(data_T)
  /\ tpc' = "returned"
  /\ UNCHANGED <<tin, tdone>>
  /\ UNCHANGED <<gemmVars, viewVars, opVars, lazyVars>>

\* the result is transposed back: trans(trans(A)) into a fresh matrix with A's view
TransAgain ==
  /\ tpc = "returned"
  /\ tin.call = 1
  /\ tin' = [tin EXCEPT !.call = 2, !.A = tin.B, !.data_A = data_T, !.B = tin.A]
  /\ data_T' = Buffer([x \in 1..Len(tin.data_A) |-> NaN], Len(tin.data_A))
  /\ tdone' = {}
  /\ tpc' = "main"
  /\ UNCHANGED <<gemmVars, viewVars, opVars, lazyVars>>

\* matrix extents around the sub-matrix edge: below it, equal to it, one more,
\* a multiple of it, and one more than a multiple
TransSizes ==
  {1, sub_mat_size, sub_mat_size + 1, 2 * sub_mat_size, 2 * sub_mat_size + 1}

\* a call trans(A) into temp_trans, both in the same layout
TransCall(vA, vB) ==
  [A |-> vA, B |-> vB, data_A |-> PatternA(BufLen(vA)), call |-> 1,
   A0 |-> vA, data_A0 |-> PatternA(BufLen(vA))]

\* full matrices of every size, and slices (of A or of temp_trans) of the
\* sizes up to one sub-matrix and a remainder
TransCalls ==
  {TransCall(PlainView(rm, n1, n2), PlainView(rm, n2, n1)) :
     rm \in BOOLEAN, n1 \in TransSizes, n2 \in TransSizes}
  \cup
  {TransCall(IF sliceA THEN SliceView(rm, n1, n2) ELSE PlainView(rm, n1, n2),
             IF sliceA THEN PlainView(rm, n2, n1) ELSE SliceView(rm, n2, n1)) :
     rm \in BOOLEAN, n1 \in {1, sub_mat_size + 1}, n2 \in {1, sub_mat_size + 1},
     sliceA \in BOOLEAN}

InitTrans ==
  /\ tin \in TransCalls
  /\ tpc = "main"
  /\ data_T = Buffer([x \in 1..BufLen(tin.B) |-> NaN], BufLen(tin.B))
  /\ tdone = {}
  /\ GemmIdle /\ ViewIdle /\ OpIdle /\ LazyIdle

NextTrans ==
  \/ \E i \in MainIterations : TransMain(i)
  \/ TransRight
  \/ TransBottom
  \/ TransAgain

\* trans, and trans applied to its own result
SpecTrans == InitTrans /\ [][NextTrans]_vars

\* C9: one call of trans leaves B(j,i) = A(i,j) for all i < size1, j < size2,
\* for sizes below, equal to, multiples of and not multiples of the sub-matrix
\* edge, in both layouts; the second call, on the result, gives A back.
C9_TransposeRoundTrip ==
  tpc = "returned" =>
    /\ \A i \in 0..(tin.A.size1 - 1) : \A j \in 0..(tin.A.size2 - 1) :
         Elem(data_T, tin.B, j, i) = Elem(tin.data_A, tin.A, i, j)
    /\ tin.call = 2 =>
         \A i \in 0..(tin.A0.size1 - 1) : \A j \in 0..(tin.A0.size2 - 1) :
           Elem(data_T, tin.B, i, j) = Elem(tin.data_A0, tin.A0, i, j)

C9_Witness ==
  /\ tpc = "returned" /\ tin.call = 2
  /\ row_count >= 1 /\ col_count >= 2
  /\ row_count_remainder > 0 /\ col_count_remainder > 0
  /\ ~tin.A.row_major

----------------------------------------------------------------------------
(* Element addressing of a view: the offsets the loops over a matrix use. *)

\* every view with nonzero strides and logical sizes within the internal sizes
Views ==
  {View(rm, s1, s2, i1, i2, n1, n2, in1, in2) :
     rm \in BOOLEAN, s1 \in 0..MaxStart, s2 \in 0..MaxStart,
     i1 \in 1..MaxStride, i2 \in 1..MaxStride,
     n1 \in 1..MaxViewDim, n2 \in 1..MaxViewDim,
     in1 \in 1..MaxInternal, in2 \in 1..MaxInternal}

\* the t-th cell the loops visit: rows outermost for a row-major matrix,
\* columns outermost for a column-major one
VisitedCell(v, t) ==
  IF v.row_major THEN <<t \div v.size2, t % v.size2>>
  ELSE <<t % v.size1, t \div v.size1>>

\* the strided extent of the fastest-varying dimension stays inside its
\* internal size
MinorExtentInside(v) ==
  IF v.row_major THEN v.start2 + (v.size2 - 1) * v.inc2 < v.internal_size2
  ELSE v.start1 + (v.size1 - 1) * v.inc1 < v.internal_size1

InitView ==
  /\ vin \in {v \in Views : v.size1 <= v.internal_size1 /\ v.size2 <= v.internal_size2}
  /\ vcur = 0
  /\ voff = <<>>
  /\ GemmIdle /\ TransIdle /\ OpIdle /\ LazyIdle

\* the loop body computes the offset of the next cell
AddressCell ==
  /\ vcur >= 0
  /\ vcur < vin.size1 * vin.size2
  /\ voff' = Append(voff, WrapperIndex(vin, VisitedCell(vin, vcur)[1],
                                            VisitedCell(vin, vcur)[2]))
  /\ vcur' = vcur + 1
  /\ UNCHANGED vin
  /\ UNCHANGED <<gemmVars, transVars, opVars, lazyVars>>

NextView == AddressCell

\* the offsets a loop over a view computes
SpecView == InitView /\ [][NextView]_vars

NoTwoCellsShareAnOffset ==
  \A a, b \in DOMAIN voff : a # b => voff[a] # voff[b]

\* C10 as stated: for every view with nonzero strides, in both layouts, two
\* distinct logical cells never map to the same buffer element.
C10_InjectiveAnyView == NoTwoCellsShareAnOffset

\* C10 amended: the same, for views whose strided extent in the
\* fastest-varying dimension stays inside the internal size
\* (start2 + (size2-1)*stride2 < internal_size2 for row-major,
\* start1 + (size1-1)*stride1 < internal_size1 for column-major).
C10_InjectiveInsideInternal ==
  MinorExtentInside(vin) => NoTwoCellsShareAnOffset

C10_Witness ==
  /\ MinorExtentInside(vin)
  /\ vin.inc1 > 1 /\ vin.inc2 > 1 /\ vin.start1 > 0 /\ vin.start2 > 0
  /\ vin.size1 > 1 /\ vin.size2 > 1
  /\ vcur = vin.size1 * vin.size2

----------------------------------------------------------------------------
(* Element-wise operations: convert, am, ambm, ambm_m and the binary        *)
(* element_op. One step of the model is one element of the loops.           *)

\* -x of NumericT
VNeg(x) == IF IsNaN(x) THEN NaN ELSE 0 - x

\* x / y of NumericT, y nonzero; the calls examined divide exactly
VDiv(x, y) ==
  IF IsNaN(x) \/ IsNaN(y) THEN NaN
  ELSE IF (x < 0) = (y < 0)
       THEN (IF x < 0 THEN 0 - x ELSE x) \div (IF y < 0 THEN 0 - y ELSE y)
       ELSE 0 - ((IF x < 0 THEN 0 - x ELSE x) \div (IF y < 0 THEN 0 - y ELSE y))

\* the number of values of an 8-bit destination type
CastMod == 256

\* static_cast<DestNumericT>: value-preserving into a wider type, modulo 2^8
\* into unsigned char
static_cast_Dest(x, dest) == IF dest = "unsigned char" THEN x % CastMod ELSE x

\* the operands of the call have different row_major() flags
MixedLayout ==
  \/ op_in.mat1.row_major # op_in.mat2.row_major
  \/ op_in.op \in {"ambm", "ambm_m", "element_op"}
       /\ op_in.mat1.row_major # op_in.mat3.row_major

\* the assert at the head of each operation; NDEBUG compiles it out
LayoutAssertFails == ~op_in.ndebug /\ MixedLayout

\* wrapper_B(row, col), wrapper_C(row, col): the operand's start, stride and
\* internal sizes under the layout of the branch taken, which is mat1's
OperandElem(buf, v, row, col) ==
  Elem(buf, [v EXCEPT !.row_major = op_in.mat1.row_major], row, col)

data_alpha_unflipped == op_in.alpha

\* data_alpha = alpha; if (flip_sign_alpha) data_alpha = -data_alpha
data_alpha == IF op_in.flip_sign_alpha THEN VNeg(op_in.alpha) ELSE op_in.alpha

\* data_beta = beta; if (flip_sign_beta) data_beta = -data_beta
data_beta == IF op_in.flip_sign_beta THEN VNeg(op_in.beta) ELSE op_in.beta

\* wrapper_B(row, col) / data_alpha or wrapper_B(row, col) * data_alpha
AlphaTerm(b) ==
  IF op_in.reciprocal_alpha THEN VDiv(b, data_alpha) ELSE VMul(b, data_alpha)

\* wrapper_C(row, col) / data_beta or wrapper_C(row, col) * data_beta
BetaTerm(c) ==
  IF op_in.reciprocal_beta THEN VDiv(c, data_beta) ELSE VMul(c, data_beta)

\* OpFunctor::apply of the binary element_op: A = B .* C or A = B ./ C
OpFunctor_apply(b, c) ==
  IF op_in.binop = "prod" THEN VMul(b, c) ELSE VDiv(b, c)

\* the value the loop body stores into wrapper_A(row, col)
ElementResult(old, b, c) ==
  CASE op_in.op = "convert"    -> static_cast_Dest(b, op_in.dest)
    [] op_in.op = "am"         -> AlphaTerm(b)
    [] op_in.op = "ambm"       -> VAdd(AlphaTerm(b), BetaTerm(c))
    [] op_in.op = "ambm_m"     -> VAdd(old, VAdd(AlphaTerm(b), BetaTerm(c)))
    [] op_in.op = "element_op" -> OpFunctor_apply(b, c)

ElemCells == op_in.mat1.size1 * op_in.mat1.size2

\* the operation is entered: the layout assert aborts, or the loops start
ElemEntry ==
  /\ op_pc = "entry"
  /\ op_pc' = IF LayoutAssertFails THEN "aborted" ELSE "loop"
  /\ UNCHANGED <<op_in, op_i, op_out>>
  /\ UNCHANGED <<gemmVars, transVars, viewVars, lazyVars>>

\* one execution of the loop body
ElemCell ==
  /\ op_pc = "loop"
  /\ op_i < ElemCells
  /\ LET cell == VisitedCell(op_in.mat1, op_i)
         off  == WrapperIndex(op_in.mat1, cell[1], cell[2]) + 1
         b    == OperandElem(op_in.data_B, op_in.mat2, cell[1], cell[2])
         c    == OperandElem(op_in.data_C, op_in.mat3, cell[1], cell[2])
     IN  op_out' = [op_out EXCEPT ![off] = ElementResult(op_out[off], b, c)]
  /\ op_i' = op_i + 1
  /\ UNCHANGED <<op_in, op_pc>>
  /\ UNCHANGED <<gemmVars, transVars, viewVars, lazyVars>>

\* the loops are over: the operation returns
ElemReturn ==
  /\ op_pc = "loop"
  /\ op_i = ElemCells
  /\ op_pc' = "returned"
  /\ UNCHANGED <<op_in, op_i, op_out>>
  /\ UNCHANGED <<gemmVars, transVars, viewVars, lazyVars>>

\* contents of the operands: mat2 holds multiples of 8, mat3 holds 2, 4, -4,
\* mat1 holds odd values
ElemPatternB(len) == Buffer([x \in 1..len |-> (IF x % 2 = 0 THEN 8 ELSE -8) * (1 + (x % 3))], len)
ElemPatternC(len) == Buffer([x \in 1..len |-> IF x % 3 = 0 THEN 2 ELSE IF x % 3 = 1 THEN 4 ELSE -4], len)
ElemPatternA(len) == Buffer([x \in 1..len |-> 2 * x + 1], len)

Scalars == {-2, 1, 2}
ElemOps == {"convert", "am", "ambm", "ambm_m", "element_op"}

\* the three operands of one shape: whole matrices, or slices of larger buffers
ElemShapes(rm1, rm2, rm3) ==
  {<<PlainView(rm1, 2, 3), PlainView(rm2, 2, 3), PlainView(rm3, 2, 3)>>,
   <<SliceView(rm1, 2, 2), PlainView(rm2, 2, 2), SliceView(rm3, 2, 2)>>}

ElemCall(op, vs, alpha, beta, ra, fa, rb, fb, binop, dest, ndebug) ==
  [op |-> op, mat1 |-> vs[1], mat2 |-> vs[2], mat3 |-> vs[3],
   A0 |-> ElemPatternA(BufLen(vs[1])),
   data_B |-> ElemPatternB(BufLen(vs[2])), data_C |-> ElemPatternC(BufLen(vs[3])),
   alpha |-> alpha, beta |-> beta,
   reciprocal_alpha |-> ra, flip_sign_alpha |-> fa,
   reciprocal_beta |-> rb, flip_sign_beta |-> fb,
   binop |-> binop, dest |-> dest, ndebug |-> ndebug]

\* every operation, layout combination and flag combination; builds with and
\* without NDEBUG
ElemCalls ==
  {ElemCall(op, vs, alpha, beta, ra, fa, rb, fb, binop, dest, ndebug) :
     op \in {"ambm", "ambm_m"},
     vs \in UNION {ElemShapes(rm, rm, rm) : rm \in BOOLEAN},
     alpha \in Scalars, beta \in Scalars,
     ra \in BOOLEAN, fa \in BOOLEAN, rb \in BOOLEAN, fb \in BOOLEAN,
     binop \in {"prod"}, dest \in {"double"}, ndebug \in {FALSE}}
  \cup
  {ElemCall(op, vs, alpha, 1, ra, fa, FALSE, FALSE, binop, dest, ndebug) :
     op \in ElemOps,
     vs \in UNION {ElemShapes(rm1, rm2, rm3) : rm1 \in BOOLEAN, rm2 \in BOOLEAN, rm3 \in BOOLEAN},
     alpha \in {-2, 2}, ra \in BOOLEAN, fa \in BOOLEAN,
     binop \in {"prod", "div"}, dest \in {"double", "unsigned char"},
     ndebug \in BOOLEAN}

InitElem ==
  /\ op_in \in ElemCalls
  /\ op_pc = "entry"
  /\ op_i = 0
  /\ op_out = op_in.A0
  /\ GemmIdle /\ TransIdle /\ ViewIdle /\ LazyIdle

NextElem == ElemEntry \/ ElemCell \/ ElemReturn

\* one call of convert, am, ambm, ambm_m or element_op
SpecElem == InitElem /\ [][NextElem]_vars

\* C11: called with operands of different layouts, the operation fails before
\* it writes any destination element and never runs to completion.
C11_MixedLayoutFailsFast ==
  (MixedLayout /\ op_pc # "entry") => (op_pc = "aborted" /\ op_out = op_in.A0)

\* x op s as the interface describes it: s negated when flip_sign is set, then
\* x divided by it when reciprocal is set and multiplied by it otherwise
Resolved(x, s, reciprocal, flip_sign) ==
  LET sg == IF flip_sign THEN -1 ELSE 1
  IN  IF reciprocal THEN VDiv(sg * x, s) ELSE sg * x * s

ElemLogicalCells ==
  (0..(op_in.mat1.size1 - 1)) \X (0..(op_in.mat1.size2 - 1))

\* mat2(r,c) op s_alpha + mat3(r,c) op s_beta
ScaledSum(cell) ==
  Resolved(Elem(op_in.data_B, op_in.mat2, cell[1], cell[2]), op_in.alpha,
           op_in.reciprocal_alpha, op_in.flip_sign_alpha)
  + Resolved(Elem(op_in.data_C, op_in.mat3, cell[1], cell[2]), op_in.beta,
             op_in.reciprocal_beta, op_in.flip_sign_beta)

\* C13: for every flag combination and both layouts, am leaves
\* mat1 = mat2 op s_alpha, ambm leaves mat1 = mat2 op s_alpha + mat3 op s_beta,
\* and ambm_m adds that sum to the previous mat1, in every logical cell.
C13_ScalarFlagsResolved ==
  (op_pc = "returned" /\ ~MixedLayout /\ op_in.op \in {"am", "ambm", "ambm_m"})
    => \A cell \in ElemLogicalCells :
         Elem(op_out, op_in.mat1, cell[1], cell[2]) =
           CASE op_in.op = "am" ->
                  Resolved(Elem(op_in.data_B, op_in.mat2, cell[1], cell[2]),
                           op_in.alpha, op_in.reciprocal_alpha, op_in.flip_sign_alpha)
             [] op_in.op = "ambm" -> ScaledSum(cell)
             [] op_in.op = "ambm_m" ->
                  Elem(op_in.A0, op_in.mat1, cell[1], cell[2]) + ScaledSum(cell)

C13_Witness ==
  /\ op_pc = "returned" /\ op_in.op = "ambm_m" /\ ~op_in.mat1.row_major
  /\ ~MixedLayout
  /\ op_in.reciprocal_alpha /\ op_in.flip_sign_alpha
  /\ ~op_in.reciprocal_beta /\ op_in.flip_sign_beta
  /\ op_in.mat1.inc1 > 1
  /\ op_out # op_in.A0

----------------------------------------------------------------------------
(* Failure of a scratch allocation in detail::prod. *)

\* the three memory_create calls of an iteration, in program order
ScratchBuffers == <<"A", "B", "C">>

\* where control goes when memory_create raises in iteration c: out of prod to
\* the caller in a build without OpenMP. With OpenMP the exception leaves the
\* structured block of the parallel loop, which OpenMP leaves undefined: the
\* runtime terminates the process, or the exception still reaches the caller.
AllocFailureOutcomes ==
  IF gin.openmp THEN {"terminated", "error"} ELSE {"error"}

\* memory_create raises for one of the scratch buffers of iteration c; the
\* handles created before it are released
AllocFails(c) ==
  /\ gpc = "loop"
  /\ gin.alloc_may_fail
  /\ c \in Unstarted
  /\ Cardinality(Running) < gin.threads
  /\ gin.threads = 1 => \A d \in Unstarted : c <= d
  /\ \E x \in DOMAIN ScratchBuffers :
       task' = [task EXCEPT ![c] = [@ EXCEPT !.pc = "failed_" \o ScratchBuffers[x]]]
  /\ gpc' \in AllocFailureOutcomes
  /\ UNCHANGED <<gin, data_C, wlog, oob>>
  /\ UNCHANGED <<transVars, viewVars, opVars, lazyVars>>

\* products of two n-blocks, in builds with and without OpenMP, where the
\* allocator may fail
AllocCalls ==
  {[PatternCall(2, 2, n, FALSE, FALSE, TRUE, TRUE, PlainView(TRUE, 2, n), 3, beta,
                [mr |-> 1, nr |-> 1, mc |-> 2, nc |-> 1, kc |-> 1], threads)
      EXCEPT !.openmp = omp, !.alloc_may_fail = TRUE] :
     n \in 0..2, beta \in {0, 2}, threads \in 1..MaxThreads, omp \in BOOLEAN}

InitAlloc == GemmInit({call \in AllocCalls : call.threads > 1 => call.openmp})

NextAlloc == Next \/ \E c \in DOMAIN task : AllocFails(c)

\* prod_impl with an allocator that may fail
SpecAlloc == InitAlloc /\ [][NextAlloc]_vars

FailedIterations == {c \in DOMAIN task : task[c].pc \in {"failed_A", "failed_B", "failed_C"}}

\* C12: an iteration whose scratch allocation fails packs nothing, calls no
\* micro-kernel and writes nothing to C, the failure reaches the caller of
\* prod_impl as an error, and prod_impl does not return normally.
C12_AllocFailureReachesCaller ==
  \A c \in FailedIterations :
    /\ task[c].buffer_A = NoBuffer /\ task[c].buffer_B = NoBuffer
    /\ task[c].buffer_C = NoBuffer
    /\ \A e \in Logged : e[1] # c
    /\ gpc = "error"

----------------------------------------------------------------------------
(* The matrix-vector product prod_impl(mat, trans, vec, result). *)

\* vector_array_wrapper: element i of a vector with the given start and stride
VecIndex(v, i) == v.start + i * v.inc
VecElem(buf, v, i) == buf[VecIndex(v, i) + 1]

\* the element of the vector stored at offset x, or -1 if there is none
VecPos(v, x) ==
  IF x >= v.start /\ (x - v.start) % v.inc = 0 /\ (x - v.start) \div v.inc < v.size
  THEN (x - v.start) \div v.inc ELSE -1

\* a vector of n elements with the given start and stride
VecView(start, inc, n) == [start |-> start, inc |-> inc, size |-> n]
VecBufLen(v) == v.start + v.inc * v.size + 1

\* the sum of s[lo..hi]
RECURSIVE SeqSum(_, _, _)
SeqSum(s, lo, hi) ==
  IF lo > hi THEN 0
  ELSE IF lo = hi THEN s[lo]
  ELSE SeqSum(s, lo, (lo + hi) \div 2) + SeqSum(s, (lo + hi) \div 2 + 1, hi)

\* the number of elements of result and of vec
MvOutSize == IF op_in.trans THEN op_in.mat.size2 ELSE op_in.mat.size1
MvInSize  == IF op_in.trans THEN op_in.mat.size1 ELSE op_in.mat.size2

\* the OpenMP clauses: if ((A_size1*A_size2) > VIENNACL_OPENMP_MATRIX_MIN_SIZE)
MvLarge == op_in.mat.size1 * op_in.mat.size2 > VIENNACL_OPENMP_MATRIX_MIN_SIZE

\* thread_count = 1, or omp_get_max_threads() for a large matrix
thread_count == IF MvLarge THEN op_in.max_threads ELSE 1

\* the number of threads the parallel region runs with: 1 when the if clause
\* is false, otherwise what the OpenMP runtime grants
team_size == IF MvLarge THEN op_in.team ELSE 1

\* the branches that split the summation index among the threads: row-major
\* with trans, column-major without
MvChunked == op_in.mat.row_major = op_in.trans

chunk_begin_unscaled(id) == id

\* begin = (A_size * id) / thread_count; end is the begin of id + 1
chunk_begin(id) == (MvInSize * id) \div thread_count

\* wrapper_mat(row, col) of wrapper w where k runs along the summation index
\* and o along the result
MvMatElem(w, k, o) ==
  IF op_in.trans THEN Elem(op_in.data_A, w, k, o) ELSE Elem(op_in.data_A, w, o, k)

\* the thread's wrapper_mat and wrapper_vec, their origin moved to begin
chunk_wrapper_mat(id) ==
  IF op_in.trans THEN WrapperAt(op_in.mat, chunk_begin(id), 0)
  ELSE WrapperAt(op_in.mat, 0, chunk_begin(id))
chunk_wrapper_vec(id) ==
  [op_in.vec EXCEPT !.start = op_in.vec.start + op_in.vec.inc * chunk_begin(id)]

\* what thread id adds to temp_array[A_size * id + o]
ChunkSum(id, o) ==
  LET n == chunk_begin(id + 1) - chunk_begin(id)
  IN  SeqSum(Buffer([k \in 1..n |->
                       MvMatElem(chunk_wrapper_mat(id), k - 1, o)
                         * VecElem(op_in.data_x, chunk_wrapper_vec(id), k - 1)], n),
             1, n)

\* temp of the loop body of the branches without chunks, for result element o
RowSum(o) ==
  SeqSum(Buffer([k \in 1..MvInSize |->
                   MvMatElem(op_in.mat, k - 1, o)
                     * op_in.data_x[(k - 1) * op_in.vec.inc + op_in.vec.start + 1]],
                MvInSize),
         1, MvInSize)

\* prod_impl is entered; the chunked branches allocate temp_array filled with 0
\* and set every element of result to 0
MvEntry ==
  /\ op_pc = "entry"
  /\ IF MvChunked
     THEN /\ op_pc' = "chunks"
          /\ op_out' = [op_out EXCEPT
               !.temp_array = Buffer([x \in 1..(MvOutSize * thread_count) |-> 0],
                                     MvOutSize * thread_count),
               !.result = Buffer([x \in 1..Len(op_out.result) |->
                                    IF VecPos(op_in.result, x - 1) >= 0
                                    THEN 0 ELSE op_out.result[x]],
                                 Len(op_out.result))]
     ELSE /\ op_pc' = "rows"
          /\ UNCHANGED op_out
  /\ UNCHANGED <<op_in, op_i>>
  /\ UNCHANGED <<gemmVars, transVars, viewVars, lazyVars>>

\* thread id runs through its chunk and accumulates into its part of temp_array
MvChunk(id) ==
  /\ op_pc = "chunks"
  /\ id \in 0..(team_size - 1)
  /\ id \notin op_out.done
  /\ op_out' = [op_out EXCEPT
       !.done = @ \cup {id},
       !.temp_array = Buffer([x \in 1..Len(op_out.temp_array) |->
                                IF (x - 1) \div MvOutSize = id
                                THEN op_out.temp_array[x] + ChunkSum(id, (x - 1) % MvOutSize)
                                ELSE op_out.temp_array[x]],
                             Len(op_out.temp_array))]
  /\ op_i' = op_i + 1
  /\ UNCHANGED <<op_in, op_pc>>
  /\ UNCHANGED <<gemmVars, transVars, viewVars, lazyVars>>

\* after the parallel region the parts of temp_array are added up into result
MvReduce ==
  /\ op_pc = "chunks"
  /\ op_out.done = 0..(team_size - 1)
  /\ op_out' = [op_out EXCEPT
       !.result = Buffer([x \in 1..Len(op_out.result) |->
                    IF VecPos(op_in.result, x - 1) >= 0
                    THEN LET o == VecPos(op_in.result, x - 1)
                         IN  op_out.result[x]
                               + SeqSum(Buffer([id \in 1..thread_count |->
                                          op_out.temp_array[MvOutSize * (id - 1) + o + 1]],
                                        thread_count), 1, thread_count)
                    ELSE op_out.result[x]],
                  Len(op_out.result))]
  /\ op_pc' = "returned"
  /\ UNCHANGED <<op_in, op_i>>
  /\ UNCHANGED <<gemmVars, transVars, viewVars, lazyVars>>

\* one iteration of the outer loop of a branch without chunks: in index order,
\* in any order when the loop runs in parallel
MvRow(o) ==
  /\ op_pc = "rows"
  /\ o \in 0..(MvOutSize - 1)
  /\ o \notin op_out.done
  /\ (MvLarge /\ op_in.max_threads > 1) \/ o = op_i
  /\ op_out' = [op_out EXCEPT
       !.done = @ \cup {o},
       !.result = [@ EXCEPT ![o * op_in.result.inc + op_in.result.start + 1] = RowSum(o)]]
  /\ op_i' = op_i + 1
  /\ UNCHANGED <<op_in, op_pc>>
  /\ UNCHANGED <<gemmVars, transVars, viewVars, lazyVars>>

MvReturn ==
  /\ op_pc = "rows"
  /\ op_i = MvOutSize
  /\ op_pc' = "returned"
  /\ UNCHANGED <<op_in, op_i, op_out>>
  /\ UNCHANGED <<gemmVars, transVars, viewVars, lazyVars>>

\* contents of mat, vec and the previous contents of result
MvPatternA(len) == Buffer([x \in 1..len |-> (x % 5) - 2], len)
MvPatternX(len) == Buffer([x \in 1..len |-> (x % 3) + 1], len)
MvPatternR(len) == Buffer([x \in 1..len |-> 100 + x], len)

MvCall(mat, trans, vstart, vinc, rstart, rinc, max_threads) ==
  LET vec == VecView(vstart, vinc, IF trans THEN mat.size1 ELSE mat.size2)
      res == VecView(rstart, rinc, IF trans THEN mat.size2 ELSE mat.size1)
  IN  [op |-> "prod", mat |-> mat, trans |-> trans,
       data_A |-> MvPatternA(BufLen(mat)),
       vec |-> vec, data_x |-> MvPatternX(VecBufLen(vec)),
       result |-> res, R0 |-> MvPatternR(VecBufLen(res)),
       max_threads |-> max_threads, team |-> max_threads]

\* small matrices in every layout, orientation, start and stride, and large
\* ones (more than VIENNACL_OPENMP_MATRIX_MIN_SIZE elements) that run in parallel
\* with a team of omp_get_max_threads() threads
MvCalls ==
  {MvCall(mat, trans, vstart, vinc, rstart, rinc, max_threads) :
     mat \in UNION {{PlainView(rm, 2, 3), SliceView(rm, 3, 2)} : rm \in BOOLEAN},
     trans \in BOOLEAN, vstart \in 0..1, vinc \in 1..2, rstart \in 0..1, rinc \in 1..2,
     max_threads \in 1..MaxThreads}
  \cup
  {MvCall(IF rm THEN PlainView(rm, 2, 2501) ELSE PlainView(rm, 2501, 2),
          ~rm, 1, 2, 1, 2, max_threads) :
     rm \in BOOLEAN, max_threads \in 1..MaxThreads}
  \cup
  {MvCall(mat, mat.row_major, 1, 2, 1, 2, max_threads) :
     mat \in UNION {{PlainView(rm, 2, 2501), PlainView(rm, 2501, 2)} : rm \in BOOLEAN},
     max_threads \in 1..MaxThreads}

InitMv ==
  /\ op_in \in MvCalls
  /\ op_pc = "entry"
  /\ op_i = 0
  /\ op_out = [result |-> op_in.R0, temp_array |-> <<>>, done |-> {}]
  /\ GemmIdle /\ TransIdle /\ ViewIdle /\ LazyIdle

NextMv ==
  \/ MvEntry
  \/ \E id \in 0..(MaxThreads - 1) : MvChunk(id)
  \/ MvReduce
  \/ \E o \in 0..(MvOutSize - 1) : MvRow(o)
  \/ MvReturn

\* one call of the matrix-vector prod_impl
SpecMv == InitMv /\ [][NextMv]_vars

\* op(mat)(i, j): the transpose when trans is set
MvOpMat(i, j) ==
  IF op_in.trans THEN Elem(op_in.data_A, op_in.mat, j, i)
  ELSE Elem(op_in.data_A, op_in.mat, i, j)

MvReference(i) ==
  SeqSum(Buffer([j \in 1..MvInSize |->
                   MvOpMat(i, j - 1) * VecElem(op_in.data_x, op_in.vec, j - 1)],
                MvInSize), 1, MvInSize)

----------------------------------------------------------------------------
(* copy_vec: a row or a column of a matrix is copied to a vector. *)

\* vcl_size_t A_size1 = viennacl::traits::size1(A)
copy_vec_A_size1 == op_in.A.size1

\* vcl_size_t A_size2 = viennacl::traits::size1(A)
copy_vec_A_size2 == op_in.A.size1

\* the first index of the loop and its bound
copy_vec_first == IF op_in.copy_col THEN op_in.row_start ELSE op_in.col_start
copy_vec_bound == IF op_in.copy_col THEN copy_vec_A_size1 ELSE copy_vec_A_size2

\* the logical cell read for loop index i
copy_vec_cell(i) ==
  IF op_in.copy_col THEN <<i, op_in.col_start>> ELSE <<op_in.row_start, i>>

\* one iteration of the loop: data_V[i - first] = data_A[mem_index(...)]; an
\* offset past the end of the buffer reads whatever is there
CopyVecElem ==
  /\ op_pc = "loop"
  /\ op_i < copy_vec_bound
  /\ LET cell == copy_vec_cell(op_i)
         off  == WrapperIndex(op_in.A, cell[1], cell[2])
     IN  \E g \in Garbage :
           op_out' = [V |-> [op_out.V EXCEPT ![op_i - copy_vec_first + 1] =
                               IF off < Len(op_in.data_A) THEN op_in.data_A[off + 1] ELSE g],
                      read |-> op_out.read \cup {cell}]
  /\ op_i' = op_i + 1
  /\ UNCHANGED <<op_in, op_pc>>
  /\ UNCHANGED <<gemmVars, transVars, viewVars, lazyVars>>

CopyVecReturn ==
  /\ op_pc = "loop"
  /\ op_i >= copy_vec_bound
  /\ op_pc' = "returned"
  /\ UNCHANGED <<op_in, op_i, op_out>>
  /\ UNCHANGED <<gemmVars, transVars, viewVars, lazyVars>>

\* previous contents of V
CopyVecPatternV(len) == Buffer([x \in 1..len |-> 0 - x], len)

\* matrices of every shape up to MaxDim x MaxDim, whole or a slice, and every
\* row or column of them from every first index
CopyVecCalls ==
  {[op |-> "copy_vec", A |-> A, data_A |-> PatternA(BufLen(A)),
    row_start |-> row_start, col_start |-> col_start, copy_col |-> copy_col,
    V0 |-> CopyVecPatternV(MaxDim + 1)] :
     A \in UNION {{PlainView(rm, n1, n2), SliceView(rm, n1, n2)} :
                    rm \in BOOLEAN, n1 \in 1..MaxDim, n2 \in 1..MaxDim},
     row_start \in 0..(MaxDim - 1), col_start \in 0..(MaxDim - 1),
     copy_col \in BOOLEAN}

InitCopyVec ==
  /\ op_in \in {call \in CopyVecCalls :
                  call.row_start < call.A.size1 /\ call.col_start < call.A.size2}
  /\ op_pc = "loop"
  /\ op_i = (IF op_in.copy_col THEN op_in.row_start ELSE op_in.col_start)
  /\ op_out = [V |-> op_in.V0, read |-> {}]
  /\ GemmIdle /\ TransIdle /\ ViewIdle /\ LazyIdle

NextCopyVec == CopyVecElem \/ CopyVecReturn

\* one call of copy_vec
SpecCopyVec == InitCopyVec /\ [][NextCopyVec]_vars

\* C15: copy_vec copies column col_start from row row_start on when copy_col
\* is set and row row_start from column col_start on otherwise, for matrices
\* of any shape, and reads no element outside the logical range of A.
C15_CopyVecCopies ==
  /\ op_pc = "returned" =>
       IF op_in.copy_col
       THEN \A i \in op_in.row_start..(op_in.A.size1 - 1) :
              op_out.V[i - op_in.row_start + 1] = Elem(op_in.data_A, op_in.A, i, op_in.col_start)
       ELSE \A i \in op_in.col_start..(op_in.A.size2 - 1) :
              op_out.V[i - op_in.col_start + 1] = Elem(op_in.data_A, op_in.A, op_in.row_start, i)
  /\ \A cell \in op_out.read : cell[1] < op_in.A.size1 /\ cell[2] < op_in.A.size2

----------------------------------------------------------------------------
(* bidiag_pack: the diagonal and the superdiagonal of A stored in D and S. *)

\* size = std::min(size1, size2)
bidiag_size ==
  IF op_in.D.size < op_in.S.size THEN op_in.D.size ELSE op_in.S.size

\* the offset into data_A of mem_index(i * A_inc1 + A_start1, j * A_inc2 +
\* A_start2, ...), in vcl_size_t arithmetic
bidiag_A_offset(i, j) == WrapperIndex(op_in.A, i, j) % SizeMod

\* start1 + inc1 * i
bidiag_D_offset(i) == (op_in.D.start + op_in.D.inc * i) % SizeMod

\* start2 + inc2 * i
bidiag_S_offset(i) == (op_in.S.start + op_in.S.inc * i) % SizeMod

\* data[off] = value: the buffer after the store; a store past the end of the
\* buffer leaves the buffer as it is
Stored(buf, off, value) ==
  IF off < Len(buf) THEN [buf EXCEPT ![off + 1] = value] ELSE buf

\* data_A[off]: an offset past the end of the buffer reads whatever is there
Loaded(off) ==
  IF off < Len(op_in.data_A) THEN {op_in.data_A[off + 1]} ELSE Garbage

\* one iteration of the loop over 0 <= i2 < long(size) - 1
BidiagElem ==
  /\ op_pc = "loop"
  /\ op_i < bidiag_size - 1
  /\ \E d \in Loaded(bidiag_A_offset(op_i, op_i)),
        s \in Loaded(bidiag_A_offset(op_i, op_i + 1)) :
       op_out' = [D |-> Stored(op_out.D, bidiag_D_offset(op_i), d),
                  S |-> Stored(op_out.S, bidiag_S_offset(op_i + 1), s),
                  written |-> op_out.written \cup
                                {<<"D", bidiag_D_offset(op_i)>>,
                                 <<"S", bidiag_S_offset(op_i + 1)>>}]
  /\ op_i' = op_i + 1
  /\ UNCHANGED <<op_in, op_pc>>
  /\ UNCHANGED <<gemmVars, transVars, viewVars, lazyVars>>

\* the store after the loop: data_D[start1 + inc1 * (size-1)] = A(size-1, size-1)
BidiagLast ==
  /\ op_pc = "loop"
  /\ op_i >= bidiag_size - 1
  /\ \E d \in Loaded(bidiag_A_offset(bidiag_size - 1, bidiag_size - 1)) :
       op_out' = [D |-> Stored(op_out.D, bidiag_D_offset(bidiag_size - 1), d),
                  S |-> op_out.S,
                  written |-> op_out.written \cup
                                {<<"D", bidiag_D_offset(bidiag_size - 1)>>}]
  /\ op_pc' = "returned"
  /\ UNCHANGED <<op_in, op_i>>
  /\ UNCHANGED <<gemmVars, transVars, viewVars, lazyVars>>

\* previous contents of D and S
BidiagPatternD(len) == Buffer([x \in 1..len |-> 0 - x], len)
BidiagPatternS(len) == Buffer([x \in 1..len |-> 0 - (10 + x)], len)

\* square matrices up to MaxDim x MaxDim, whole or a slice, and vectors or
\* vector ranges of every size from 0 to the order of the matrix
BidiagCalls ==
  {[op |-> "bidiag_pack", A |-> A, data_A |-> PatternA(BufLen(A)),
    D |-> D, S |-> S,
    D0 |-> BidiagPatternD(VecBufLen(D)), S0 |-> BidiagPatternS(VecBufLen(S))] :
     A \in UNION {{PlainView(rm, n, n), SliceView(rm, n, n)} :
                    rm \in BOOLEAN, n \in 1..MaxDim},
     D \in {VecView(start, inc, n) :
              start \in 0..MaxStart, inc \in 1..MaxStride, n \in 0..MaxDim},
     S \in {VecView(start, inc, n) :
              start \in 0..MaxStart, inc \in 1..MaxStride, n \in 0..MaxDim}}

InitBidiag ==
  /\ op_in \in {call \in BidiagCalls :
                  call.D.size <= call.A.size1 /\ call.S.size <= call.A.size1}
  /\ op_pc = "loop"
  /\ op_i = 0
  /\ op_out = [D |-> op_in.D0, S |-> op_in.S0, written |-> {}]
  /\ GemmIdle /\ TransIdle /\ ViewIdle /\ LazyIdle

NextBidiag == BidiagElem \/ BidiagLast

\* one call of bidiag_pack
SpecBidiag == InitBidiag /\ [][NextBidiag]_vars

\* C16: with size = min(size(D), size(S)), bidiag_pack stores D[i] = A(i,i)
\* for 0 <= i < size and S[i+1] = A(i,i+1) for 0 <= i < size-1, leaves S[0]
\* and every other element of D and S unchanged, and writes no index outside
\* [0, size), also when size is 0 or 1.
C16_BidiagPack ==
  /\ \A w \in op_out.written :
       \E i \in 0..(bidiag_size - 1) :
         w[2] = VecIndex(IF w[1] = "D" THEN op_in.D ELSE op_in.S, i)
  /\ op_pc = "returned" =>
       /\ \A i \in 0..(bidiag_size - 1) :
            VecElem(op_out.D, op_in.D, i) = Elem(op_in.data_A, op_in.A, i, i)
       /\ \A i \in 0..(bidiag_size - 2) :
            VecElem(op_out.S, op_in.S, i + 1) = Elem(op_in.data_A, op_in.A, i, i + 1)
       /\ \A x \in 1..Len(op_out.D) :
            (\A i \in 0..(bidiag_size - 1) : x # VecIndex(op_in.D, i) + 1)
              => op_out.D[x] = op_in.D0[x]
       /\ \A x \in 1..Len(op_out.S) :
            (\A i \in 1..(bidiag_size - 1) : x # VecIndex(op_in.S, i) + 1)
              => op_out.S[x] = op_in.S0[x]

----------------------------------------------------------------------------
(* lazy_program_compiler: a program compiled on first use. *)

\* the source pieces a caller passes to the constructor and to add()
SourcePieces == {"a", "b"}

\* the name the compiler was constructed with
ProgramName == "prog"

\* lazy_program_compiler(ctx, name, src) and lazy_program_compiler(ctx, name):
\* the context has no program of that name yet; log is the history of the
\* calls made on the object, with the add_program invocations inside each
Constructed(src) ==
  [src_ |-> src, program_ |-> "NULL", ctx_programs |-> {}, log |-> <<>>]

\* a call in the history
Call(fn, add_program, result) ==
  [fn |-> fn, add_program |-> add_program, result |-> result]

\* context::add_program(src_, name_): builds the source and registers the
\* program under the name, or throws when the build fails
add_program_outcomes == {"returned", "thrown"}

\* context::get_program(name_): the program registered under the name; it
\* throws when there is none
get_program(programs) ==
  IF ProgramName \in programs THEN "program" ELSE "thrown"

needs_compile_always(program_) == TRUE

\* if (program_ == NULL)
needs_compile(program_) == program_ = "NULL"

\* add(src): src_ += src
LazyAdd ==
  /\ Len(lazy.log) < MaxCalls
  /\ \E piece \in SourcePieces :
       lazy' = [lazy EXCEPT !.src_ = Append(@, piece),
                            !.log = Append(@, Call("add", <<>>, "void"))]
  /\ UNCHANGED <<gemmVars, transVars, viewVars, opVars>>

\* src(): returns src_
LazySrc ==
  /\ Len(lazy.log) < MaxCalls
  /\ lazy' = [lazy EXCEPT !.log = Append(@, Call("src", <<>>, lazy.src_))]
  /\ UNCHANGED <<gemmVars, transVars, viewVars, opVars>>

\* program(): compiles when program_ is NULL, then looks the program up; an
\* exception of add_program leaves program() before program_ is assigned
LazyProgram ==
  /\ Len(lazy.log) < MaxCalls
  /\ IF needs_compile(lazy.program_)
     THEN \E outcome \in add_program_outcomes :
            IF outcome = "returned"
            THEN lazy' = [lazy EXCEPT
                            !.program_ = "set",
                            !.ctx_programs = @ \cup {ProgramName},
                            !.log = Append(@, Call("program", <<lazy.src_>>,
                                      get_program(lazy.ctx_programs \cup {ProgramName})))]
            ELSE lazy' = [lazy EXCEPT
                            !.log = Append(@, Call("program", <<lazy.src_>>, "thrown"))]
     ELSE lazy' = [lazy EXCEPT
                     !.log = Append(@, Call("program", <<>>, get_program(lazy.ctx_programs)))]
  /\ UNCHANGED <<gemmVars, transVars, viewVars, opVars>>

InitLazy ==
  /\ lazy \in {Constructed(src) : src \in {<<>>} \cup {<<piece>> : piece \in SourcePieces}}
  /\ GemmIdle /\ TransIdle /\ ViewIdle /\ OpIdle

NextLazy == LazyAdd \/ LazySrc \/ LazyProgram

\* any sequence of add(), src() and program() calls on one object
SpecLazy == InitLazy /\ [][NextLazy]_vars

\* the positions in the history of the calls that invoked add_program
CompilingCalls == {n \in 1..Len(lazy.log) : lazy.log[n].add_program # <<>>}

\* the positions in the history of the program() calls
ProgramCalls == {n \in 1..Len(lazy.log) : lazy.log[n].fn = "program"}

\* C17 as stated: add_program is invoked at most once, and only inside the
\* first program() call.
C17_CompiledAtMostOnce ==
  /\ Cardinality(CompilingCalls) <= 1
  /\ \A n \in CompilingCalls : n \in ProgramCalls /\ \A m \in ProgramCalls : n <= m

\* C17: add_program is invoked only inside program() calls, at most once per
\* call, and never after an invocation of it has returned: add() and src()
\* never compile, and every program() call after the first one whose
\* add_program returned only looks the program up by name.
C17_CompiledUntilSuccess ==
  /\ \A n \in CompilingCalls :
       /\ n \in ProgramCalls
       /\ Len(lazy.log[n].add_program) = 1
       /\ \A m \in CompilingCalls : m < n => lazy.log[m].result = "thrown"
  /\ \A n \in ProgramCalls :
       (\E m \in CompilingCalls : m < n /\ lazy.log[m].result # "thrown")
         => lazy.log[n].add_program = <<>> /\ lazy.log[n].result = "program"

\* a program() call that only looks the program up, after add(), src() and
\* the program() call that compiled
C17_Witness ==
  /\ \E n \in ProgramCalls : n \notin CompilingCalls
  /\ \E n \in CompilingCalls : lazy.log[n].result = "program"
  /\ \E n \in 1..Len(lazy.log) : lazy.log[n].fn = "add"
  /\ \E n \in 1..Len(lazy.log) : lazy.log[n].fn = "src"

----------------------------------------------------------------------------
(* The write-back of prod, step by step. *)

\* the partial product of k-block b for cell (i, j): the sum over the first
\* count indices p of the block of op(A)(i, p) * op(B)(p, j)
RECURSIVE BlockDot(_, _, _, _)
BlockDot(i, j, b, count) ==
  IF count = 0 THEN 0
  ELSE VAdd(BlockDot(i, j, b, count - 1),
            VMul(OpA(i, b * gin.kc + count - 1), OpB(b * gin.kc + count - 1, j)))

BetaNonzero == VGt(gin.beta, 0) \/ VLt(gin.beta, 0)

\* this step is the write-back of iteration c
WriteBackStep(c) == task[c].pc = "write" /\ task'[c] # task[c]

\* the write-back of iteration c stores beta * C(i,j) + alpha * tile(i,j) in
\* every clipped cell of its micro-tile
GeneralUpdate(c) ==
  LET t     == task[c]
      cells == TileCells(t)
  IN  \A x \in DOMAIN cells :
        Elem(data_C', gin.C, cells[x][1], cells[x][2]) =
          VAdd(VMul(gin.beta, Elem(data_C, gin.C, cells[x][1], cells[x][2])),
               VMul(gin.alpha, BlockDot(cells[x][1], cells[x][2], t.A2B1_idx,
                                        num_micros_slivers(t.A2B1_idx))))

\* C18: when beta is nonzero, every micro-tile write-back, in every k-block
\* including k-block 0, updates each clipped cell as
\* C(i,j) := beta * C(i,j) + alpha * tile(i,j), tile being the partial
\* product of that k-block only.
C18_NonzeroBetaWriteBack ==
  [][BetaNonzero => \A c \in DOMAIN task : WriteBackStep(c) => GeneralUpdate(c)]_vars

\* a cell written back by k-block 0 and by a later k-block with beta nonzero
C18_Witness ==
  /\ BetaNonzero
  /\ \E cell \in DOMAIN wlog :
       /\ Len(wlog[cell]) >= 2
       /\ wlog[cell][1][2] = 0
       /\ wlog[cell][Len(wlog[cell])][2] >= 1
       /\ wlog[cell][Len(wlog[cell])][3] = "general"

\* C19: the k-blocks of an n-block iteration are processed in strictly
\* increasing index order: the write-backs a cell receives come from
\* k-blocks of increasing index, and with beta = 0 the first write to a cell
\* is the assignment C = alpha*tile of k-block 0 and every later write is an
\* accumulation C += alpha*tile of a k-block >= 1, so no accumulation into a
\* cell precedes its assignment.
C19_KBlocksInOrder ==
  \A cell \in DOMAIN wlog :
    /\ \A x \in DOMAIN wlog[cell] : \A y \in DOMAIN wlog[cell] :
         x < y => wlog[cell][x][2] < wlog[cell][y][2]
    /\ gin.beta = 0 =>
         \A x \in DOMAIN wlog[cell] :
           IF x = 1 THEN wlog[cell][x][2] = 0 /\ wlog[cell][x][3] = "assign"
           ELSE wlog[cell][x][2] >= 1 /\ wlog[cell][x][3] = "add"

\* a call with beta = 0 has returned and a cell received an assignment
\* followed by two accumulations
C19_Witness ==
  /\ Returned /\ gin.beta = 0
  /\ \E cell \in DOMAIN wlog :
       /\ Len(wlog[cell]) = 3
       /\ wlog[cell][1][3] = "assign"
       /\ wlog[cell][2][3] = "add"
       /\ wlog[cell][3][3] = "add"

----------------------------------------------------------------------------
(* The order of the steps of an n-block iteration. *)

\* the last step of the given kind before position x of a history, <<>> if
\* there is none
LastBefore(ev, x, kind) ==
  LET earlier == {y \in 1..(x - 1) : ev[y][1] = kind}
  IN  IF earlier = {} THEN <<>>
      ELSE ev[CHOOSE y \in earlier : \A z \in earlier : z <= y]

\* the step of the given kind at the loop position of step e
Same(kind, e) == <<kind, e[2], e[3], e[4], e[5]>>

\* the steps of iteration c so far are in order
StepsInOrder(c) ==
  LET ev == task[c].events
  IN  /\ \A x \in DOMAIN ev : \A y \in DOMAIN ev : x # y => ev[x] # ev[y]
      /\ \A x \in DOMAIN ev :
           CASE ev[x][1] = "packB"  -> TRUE
             [] ev[x][1] = "packA"  ->
                  LastBefore(ev, x, "packB") = <<"packB", ev[x][2]>>
             [] ev[x][1] = "zero"   ->
                  x < Len(ev) => ev[x + 1] = Same("kernel", ev[x])
             [] ev[x][1] = "kernel" ->
                  /\ LastBefore(ev, x, "packB") = <<"packB", ev[x][2]>>
                  /\ LastBefore(ev, x, "packA") = <<"packA", ev[x][2], ev[x][3]>>
                  /\ x > 1 /\ ev[x - 1] = Same("zero", ev[x])
                  /\ x < Len(ev) => ev[x + 1] = Same("write", ev[x])
             [] ev[x][1] = "write"  ->
                  x > 1 /\ ev[x - 1] = Same("kernel", ev[x])

\* the accumulator is all zeros when the micro-kernel is called, and holds
\* what the micro-kernel left when the tile is written back
AccumulatorInStep(c) ==
  LET t  == task[c]
      ev == t.events
  IN  /\ t.pc = "kernel" =>
           /\ ev # <<>> /\ ev[Len(ev)] = Event("zero", t)
           /\ \A x \in DOMAIN t.buffer_C : t.buffer_C[x] = 0
      /\ t.pc = "write" => ev # <<>> /\ ev[Len(ev)] = Event("kernel", t)

\* an iteration that has ended has packed every panel and run every sliver pair
AllStepsTaken(c) ==
  LET ev    == task[c].events
      steps == {ev[x] : x \in DOMAIN ev}
  IN  task[c].pc = "done" =>
        \A kb \in 0..(num_blocks_A2 - 1) :
          /\ <<"packB", kb>> \in steps
          /\ \A mb \in 0..(num_blocks_C1 - 1) :
               /\ <<"packA", kb, mb>> \in steps
               /\ \A sB \in 0..(max_sliver_B_idx(c) - 1) :
                    \A sA \in 0..(max_sliver_A_idx(mb) - 1) :
                      <<"kernel", kb, mb, sB, sA>> \in steps

\* C20: within an n-block iteration the B panel is packed exactly once per
\* k-block, before any A panel of that k-block; the A panel is packed exactly
\* once per (k-block, m-block) pair, before any micro-kernel call that reads
\* it; and for each (A sliver, B sliver) pair the accumulator is set to
\* zeros, then the micro-kernel is called exactly once, then the tile is
\* written back, with no other write to the accumulator in between.
C20_StepOrder ==
  \A c \in DOMAIN task : StepsInOrder(c) /\ AccumulatorInStep(c) /\ AllStepsTaken(c)

\* an iteration has ended after two k-blocks, two m-blocks in each and two
\* sliver pairs in a block
C20_Witness ==
  \E c \in DOMAIN task :
    LET ev    == task[c].events
        steps == {ev[x] : x \in DOMAIN ev}
    IN  /\ task[c].pc = "done"
        /\ <<"packB", 1>> \in steps
        /\ <<"packA", 1, 1>> \in steps
        /\ \E e \in steps : e[1] = "write" /\ e[2] = 1 /\ (e[4] = 1 \/ e[5] = 1)

----------------------------------------------------------------------------
(* The scratch buffers of the n-block iterations. *)

Allocated(c) == task[c].pc \notin {"idle", "done"}

\* an iteration holds buffers of mc*kc, kc*nc and mr*nr elements from its
\* start to its end, and none before its start or after its end; it has
\* packed nothing before its start
BuffersHeld ==
  \A c \in DOMAIN task :
    IF Allocated(c)
    THEN /\ DOMAIN task[c].buffer_A = 0..(gin.mc * gin.kc - 1)
         /\ DOMAIN task[c].buffer_B = 0..(gin.kc * gin.nc - 1)
         /\ DOMAIN task[c].buffer_C = 0..(gin.mr * gin.nr - 1)
    ELSE /\ task[c].buffer_A = NoBuffer /\ task[c].buffer_B = NoBuffer
         /\ task[c].buffer_C = NoBuffer
         /\ task[c].pc = "idle" => task[c].events = <<>>

\* a step of one iteration leaves the buffers of every other iteration as
\* they are, and a buffer changes only in a step of a started iteration that
\* has not ended
BuffersPrivate ==
  \A c \in DOMAIN task \cap DOMAIN task' :
    /\ task'[c] # task[c] =>
         \A d \in (DOMAIN task \cap DOMAIN task') \ {c} : task'[d] = task[d]
    /\ ( \/ task'[c].buffer_A # task[c].buffer_A
         \/ task'[c].buffer_B # task[c].buffer_B
         \/ task'[c].buffer_C # task[c].buffer_C )
         => task[c].pc # "done" /\ task'[c].pc # "idle"

\* C21: each n-block iteration allocates its own A-panel buffer (mc*kc
\* elements), B-panel buffer (kc*nc elements) and accumulator (mr*nr
\* elements) at its start, before its first pack call, and no such buffer is
\* read or written by another iteration or after its iteration has ended.
C21_PrivateScratchBuffers == []BuffersHeld /\ [][BuffersPrivate]_vars

\* two iterations hold buffers at once, each having packed a panel, while a
\* third has ended
C21_Witness ==
  \E c \in DOMAIN task : \E d \in DOMAIN task : \E e \in DOMAIN task :
    /\ c # d
    /\ Allocated(c) /\ Allocated(d)
    /\ task[c].events # <<>> /\ task[d].events # <<>>
    /\ task[e].pc = "done"

----------------------------------------------------------------------------
(* The parallel loops of convert, am, ambm, ambm_m, matrix_assign and the   *)
(* binary element_op: the outer loop's iterations in any schedule.          *)

\* A_size1 and A_size2 of matrix_assign: the internal sizes when clear is set
assign_A_size1 ==
  IF op_in.clear THEN op_in.mat1.internal_size1 ELSE op_in.mat1.size1
assign_A_size2 ==
  IF op_in.clear THEN op_in.mat1.internal_size2 ELSE op_in.mat1.size2

\* the bounds of the two loops
loop_rows == IF op_in.op = "matrix_assign" THEN assign_A_size1 ELSE op_in.mat1.size1
loop_cols == IF op_in.op = "matrix_assign" THEN assign_A_size2 ELSE op_in.mat1.size2

\* the outer, parallel loop runs over the rows of a row-major matrix and over
\* the columns of a column-major one
outer_count == IF op_in.mat1.row_major THEN loop_rows ELSE loop_cols
inner_count == IF op_in.mat1.row_major THEN loop_cols ELSE loop_rows

\* (row, col) of the x-th execution of the loop body in outer iteration it
LoopCell(it, x) == IF op_in.mat1.row_major THEN <<it, x>> ELSE <<x, it>>

\* the operands an operation reads
ReadsB == op_in.op # "matrix_assign"
ReadsC == op_in.op \in {"ambm", "ambm_m", "element_op"}
ReadsA == op_in.op = "ambm_m"

\* the value the loop body stores
LoopValue(old, b, c) ==
  IF op_in.op = "matrix_assign" THEN op_in.alpha ELSE ElementResult(old, b, c)

\* buffer element at an offset; an offset past the end of the buffer reads 0
At(buf, off) == IF off < Len(buf) THEN buf[off + 1] ELSE 0

\* the buffer of mat1 after the first n executions of the loop body of outer
\* iteration it; an operand that is the destination view itself is read from
\* the buffer as it is at that moment
RECURSIVE RunIteration(_, _, _)
RunIteration(buf, it, n) ==
  IF n = 0 THEN buf
  ELSE LET prev == RunIteration(buf, it, n - 1)
           cell == LoopCell(it, n - 1)
           off  == WrapperIndex(op_in.mat1, cell[1], cell[2])
           b    == IF ~ReadsB THEN 0
                   ELSE IF op_in.same2 THEN At(prev, off)
                   ELSE OperandElem(op_in.data_B, op_in.mat2, cell[1], cell[2])
           c    == IF ~ReadsC THEN 0
                   ELSE IF op_in.same3 THEN At(prev, off)
                   ELSE OperandElem(op_in.data_C, op_in.mat3, cell[1], cell[2])
       IN  Stored(prev, off, LoopValue(At(prev, off), b, c))

\* the stores of outer iteration it: iteration, row, column, offset
IterationWrites(it) ==
  {<<it, LoopCell(it, x)[1], LoopCell(it, x)[2],
     WrapperIndex(op_in.mat1, LoopCell(it, x)[1], LoopCell(it, x)[2])>> :
     x \in 0..(inner_count - 1)}

\* the loads of outer iteration it from the buffer of mat1: iteration, offset
IterationReads(it) ==
  IF ReadsA \/ (ReadsB /\ op_in.same2) \/ (ReadsC /\ op_in.same3)
  THEN {<<it, WrapperIndex(op_in.mat1, LoopCell(it, x)[1], LoopCell(it, x)[2])>> :
          x \in 0..(inner_count - 1)}
  ELSE {}

\* some thread runs outer iteration it
LoopIteration(it) ==
  /\ op_pc = "loop"
  /\ it \in (0..(outer_count - 1)) \ op_out.done
  /\ op_out' = [A |-> RunIteration(op_out.A, it, inner_count),
                done |-> op_out.done \cup {it},
                writes |-> op_out.writes \cup IterationWrites(it),
                reads |-> op_out.reads \cup IterationReads(it)]
  /\ UNCHANGED <<op_in, op_pc, op_i>>
  /\ UNCHANGED <<gemmVars, transVars, viewVars, lazyVars>>

\* every iteration has run: the operation returns
LoopReturn ==
  /\ op_pc = "loop"
  /\ op_out.done = 0..(outer_count - 1)
  /\ op_pc' = "returned"
  /\ UNCHANGED <<op_in, op_i, op_out>>
  /\ UNCHANGED <<gemmVars, transVars, viewVars, lazyVars>>

\* views of a 2 x 2 or 2 x 3 matrix: whole, a range with a row stride, and
\* slices with a stride in one dimension only
LoopViews ==
  UNION {{PlainView(rm, 2, 3), SliceView(rm, 2, 2),
          View(rm, 0, 0, 1, 2, 2, 2, 2, 4), View(rm, 0, 0, 2, 1, 2, 2, 4, 2)} :
           rm \in BOOLEAN}

\* one call; same2 and same3 say that mat2 and mat3 are the destination view
\* itself, otherwise they are views of the same shape in buffers of their own
LoopCall(op, mat1, same2, same3, alpha, ra, fa, binop, clear) ==
  [op |-> op, mat1 |-> mat1, mat2 |-> mat1, mat3 |-> mat1,
   same2 |-> same2, same3 |-> same3, clear |-> clear,
   A0 |-> ElemPatternA(BufLen(mat1)),
   data_B |-> ElemPatternB(BufLen(mat1)), data_C |-> ElemPatternC(BufLen(mat1)),
   alpha |-> alpha, beta |-> 2,
   reciprocal_alpha |-> ra, flip_sign_alpha |-> fa,
   reciprocal_beta |-> FALSE, flip_sign_beta |-> TRUE,
   binop |-> binop, dest |-> "double", ndebug |-> FALSE]

LoopCalls ==
  {LoopCall(op, mat1, same2, same3, alpha, ra, fa, binop, FALSE) :
     op \in ElemOps, mat1 \in LoopViews, same2 \in BOOLEAN, same3 \in BOOLEAN,
     alpha \in {-2, 2}, ra \in {FALSE}, fa \in BOOLEAN, binop \in {"prod"}}
  \cup
  {LoopCall("matrix_assign", mat1, FALSE, FALSE, alpha, FALSE, FALSE, "prod", clear) :
     mat1 \in LoopViews, alpha \in {0, -2}, clear \in BOOLEAN}

InitLoop ==
  /\ op_in \in LoopCalls
  /\ op_pc = "loop"
  /\ op_i = 0
  /\ op_out = [A |-> op_in.A0, done |-> {}, writes |-> {}, reads |-> {}]
  /\ GemmIdle /\ TransIdle /\ ViewIdle /\ LazyIdle

NextLoop == (\E it \in 0..(outer_count - 1) : LoopIteration(it)) \/ LoopReturn

\* one call with the outer loop's iterations in any order
SpecLoop == InitLoop /\ [][NextLoop]_vars

\* the stores to the offset of logical cell (r, c)
StoresTo(cell) ==
  {w \in op_out.writes : w[4] = WrapperIndex(op_in.mat1, cell[1], cell[2])}

\* what the operation leaves in a logical cell, from the operands as they
\* were at the call
LoopReference(cell) ==
  LET a0 == Elem(op_in.A0, op_in.mat1, cell[1], cell[2])
  IN  LoopValue(a0,
                IF op_in.same2 THEN a0 ELSE Elem(op_in.data_B, op_in.mat2, cell[1], cell[2]),
                IF op_in.same3 THEN a0 ELSE Elem(op_in.data_C, op_in.mat3, cell[1], cell[2]))

\* C22: with every source view identical to or disjoint from the destination
\* view, every logical destination cell is written exactly once, by exactly
\* one iteration of the parallel loop, no iteration reads a cell another
\* iteration writes, and every schedule leaves the same result.
C22_ParallelLoopsRaceFree ==
  /\ \A w \in op_out.writes : \A r \in op_out.reads : w[4] = r[2] => w[1] = r[1]
  /\ \A cell \in ElemLogicalCells : Cardinality(StoresTo(cell)) <= 1
  /\ op_pc = "returned" =>
       \A cell \in ElemLogicalCells :
         /\ Cardinality(StoresTo(cell)) = 1
         /\ Elem(op_out.A, op_in.mat1, cell[1], cell[2]) = LoopReference(cell)

----------------------------------------------------------------------------
(* The k-blocks of prod. *)

\* the reduction indices k-block b covers
KRange(b) == {p \in 0..(k_size - 1) :
                b * gin.kc <= p /\ p < b * gin.kc + num_micros_slivers(b)}

\* the k-blocks in which the micro-kernel was called for the micro-tile at
\* (m-block, B sliver, A sliver) in iteration c
KernelBlocks(c, mb, sB, sA) ==
  {kb \in 0..(num_blocks_A2 - 1) :
     \E x \in DOMAIN task[c].events : task[c].events[x] = <<"kernel", kb, mb, sB, sA>>}

RECURSIVE CountSum(_)
CountSum(blocks) ==
  IF blocks = {} THEN 0
  ELSE LET b == CHOOSE b \in blocks : TRUE
       IN  num_micros_slivers(b) + CountSum(blocks \ {b})

\* C23: k-block b covers [b*kc, b*kc + count_b) with
\* count_b = min(kc, k - b*kc) and 1 <= count_b <= kc for every
\* b < ceil(k/kc); the ranges are pairwise disjoint and cover [0, k), and for
\* each micro-tile the counts passed to the micro-kernel sum to k.
C23_KBlocksPartition ==
  /\ \A b \in 0..(num_blocks_A2 - 1) :
       /\ num_micros_slivers(b) >= 1 /\ num_micros_slivers(b) <= gin.kc
       /\ Cardinality(KRange(b)) = num_micros_slivers(b)
       /\ \A d \in 0..(num_blocks_A2 - 1) : b # d => KRange(b) \cap KRange(d) = {}
  /\ UNION {KRange(b) : b \in 0..(num_blocks_A2 - 1)} = 0..(k_size - 1)
  /\ \A c \in DOMAIN task :
       task[c].pc = "done" =>
         \A mb \in 0..(num_blocks_C1 - 1) :
           \A sB \in 0..(max_sliver_B_idx(c) - 1) :
             \A sA \in 0..(max_sliver_A_idx(mb) - 1) :
               CountSum(KernelBlocks(c, mb, sB, sA)) = k_size

\* an iteration has ended whose last k-block is shorter than kc
C23_Witness ==
  /\ num_blocks_A2 >= 2
  /\ k_size % gin.kc # 0
  /\ \E c \in DOMAIN task :
       /\ task[c].pc = "done"
       /\ \E x \in DOMAIN task[c].events : task[c].events[x][1] = "kernel"

----------------------------------------------------------------------------
(* The destination cells the three parts of trans write. *)

\* a loop nest writing wrapper_B cells (r0 + p, c0 + q) for p < n1, q < n2
Region(r0, c0, n1, n2) == [r0 |-> r0, c0 |-> c0, n1 |-> n1, n2 |-> n2]

InRegion(reg, p, q) ==
  /\ reg.r0 <= p /\ p < reg.r0 + reg.n1
  /\ reg.c0 <= q /\ q < reg.c0 + reg.n2

\* the cells of temp_trans iteration i of the main loop writes
MainRegion(i) ==
  Region((i % col_count) * sub_mat_size, (i \div col_count) * sub_mat_size,
         sub_mat_size, sub_mat_size)

\* the cells the right-side and the bottom remainder write
RightRegion == Region(col_count * sub_mat_size, 0, col_count_remainder, right_rows)
BottomRegion == Region(0, row_count * sub_mat_size, bottom_cols, row_count_remainder)

\* the number of writes destination cell (p, q) has received so far
WritesSoFar(p, q) ==
  Cardinality({i \in tdone : InRegion(MainRegion(i), p, q)})
  + (IF tpc \in {"bottom", "returned"} /\ InRegion(RightRegion, p, q) THEN 1 ELSE 0)
  + (IF tpc = "returned" /\ InRegion(BottomRegion, p, q) THEN 1 ELSE 0)

\* C24: trans writes every destination cell B(j,i), i < size1, j < size2,
\* exactly once: the main sub-blocks, the right-side remainder and the bottom
\* remainder are pairwise disjoint and cover the matrix, and the main loop
\* runs zero iterations when size1 or size2 is below the sub-matrix edge.
C24_TransWritesOnce ==
  /\ tin.call = 1 =>
       \A p \in 0..(tin.A.size2 - 1) : \A q \in 0..(tin.A.size1 - 1) :
         LET writes == WritesSoFar(p, q)
         IN  /\ writes <= 1
             /\ (writes = 1) = ~IsNaN(Elem(data_T, tin.B, p, q))
             /\ tpc = "returned" => writes = 1
  /\ \A i \in MainIterations :
       MainRegion(i).r0 + sub_mat_size <= tin.A.size2
         /\ MainRegion(i).c0 + sub_mat_size <= tin.A.size1
  /\ RightRegion.r0 + RightRegion.n1 <= tin.A.size2 /\ RightRegion.n2 <= tin.A.size1
  /\ BottomRegion.n1 <= tin.A.size2 /\ BottomRegion.c0 + BottomRegion.n2 <= tin.A.size1
  /\ (tin.A.size1 < sub_mat_size \/ tin.A.size2 < sub_mat_size) => MainIterations = {}

\* trans has returned for a matrix with several main sub-blocks and both
\* remainders
C24_Witness ==
  /\ tpc = "returned" /\ tin.call = 1
  /\ Cardinality(tdone) >= 2
  /\ row_count_remainder > 0 /\ col_count_remainder > 0

----------------------------------------------------------------------------
(* The reduction paths of the matrix-vector product under every team size. *)

\* large matrices on the two reduction paths, the parallel region running
\* with any number of threads from 1 to omp_get_max_threads()
MvTeamCalls ==
  {[MvCall(mat, mat.row_major, vstart, 2, 1, rinc, max_threads) EXCEPT !.team = team] :
     mat \in UNION {{PlainView(rm, 2, 2501), PlainView(rm, 2501, 2)} : rm \in BOOLEAN},
     vstart \in 0..1, rinc \in 1..2,
     max_threads \in 1..MaxThreads, team \in 1..MaxThreads}

InitMvTeam ==
  /\ op_in \in {call \in MvTeamCalls : call.team <= call.max_threads}
  /\ op_pc = "entry"
  /\ op_i = 0
  /\ op_out = [result |-> op_in.R0, temp_array |-> <<>>, done |-> {}]
  /\ GemmIdle /\ TransIdle /\ ViewIdle /\ LazyIdle

NextMvTeam ==
  \/ MvEntry
  \/ \E id \in 0..(MaxThreads - 1) : MvChunk(id)
  \/ MvReduce

\* one call of prod_impl on a reduction path
SpecMvTeam == InitMvTeam /\ [][NextMvTeam]_vars

\* the summation indices of thread id
ChunkRange(id) == {k \in 0..(MvInSize - 1) : chunk_begin(id) <= k /\ k < chunk_begin(id + 1)}

\* C25: on the reduction paths the ranges [size*id/thread_count,
\* size*(id+1)/thread_count) for id < thread_count are pairwise disjoint and
\* cover [0, size), each thread adds only into its own slice of temp_array,
\* and every one of the thread_count ranges has been processed before the
\* final summation, also when the parallel region runs with fewer threads
\* than thread_count.
C25_EveryRangeProcessed ==
  /\ \A id \in 0..(thread_count - 1) : \A other \in 0..(thread_count - 1) :
       id # other => ChunkRange(id) \cap ChunkRange(other) = {}
  /\ UNION {ChunkRange(id) : id \in 0..(thread_count - 1)} = 0..(MvInSize - 1)
  /\ op_pc = "chunks" =>
       \A id \in (0..(thread_count - 1)) \ op_out.done : \A o \in 0..(MvOutSize - 1) :
         op_out.temp_array[MvOutSize * id + o + 1] = 0
  /\ op_pc = "returned" =>
       /\ op_out.done = 0..(thread_count - 1)
       /\ \A i \in 0..(MvOutSize - 1) :
            VecElem(op_out.result, op_in.result, i) = MvReference(i)

----------------------------------------------------------------------------
(* The buffer elements matrix_assign stores to. *)

\* the offsets of the logical cells of mat1
LogicalOffsets ==
  {WrapperIndex(op_in.mat1, cell[1], cell[2]) : cell \in ElemLogicalCells}

\* the offsets stored to so far
WrittenOffsets == {w[4] : w \in op_out.writes}

\* C26: matrix_assign(mat, s, clear) writes only inside the matrix buffer of
\* internal_size1*internal_size2 elements, for every view start and stride:
\* with clear = false it writes s to exactly the logical cells and leaves
\* every other buffer element unchanged; with clear = true it writes
\* internal_size1 x internal_size2 cells addressed through the view's start
\* and stride, and each of those offsets is below
\* internal_size1*internal_size2.
C26_AssignInsideBuffer ==
  op_in.op = "matrix_assign" =>
    /\ \A off \in WrittenOffsets : off < BufLen(op_in.mat1)
    /\ ~op_in.clear =>
         /\ WrittenOffsets \subseteq LogicalOffsets
         /\ \A off \in (0..(BufLen(op_in.mat1) - 1)) \ LogicalOffsets :
              At(op_out.A, off) = At(op_in.A0, off)
         /\ op_pc = "returned" =>
              /\ WrittenOffsets = LogicalOffsets
              /\ \A off \in LogicalOffsets : At(op_out.A, off) = op_in.alpha
    /\ (op_in.clear /\ op_pc = "returned") =>
         /\ Cardinality(op_out.writes) =
              op_in.mat1.internal_size1 * op_in.mat1.internal_size2
         /\ \A w \in op_out.writes :
              At(op_out.A, w[4]) = op_in.alpha

----------------------------------------------------------------------------
(* matrix_diag_from_vector followed by matrix_diag_to_vector. *)

\* row_start and col_start of diagonal k
diag_row_start == IF op_in.k >= 0 THEN 0 ELSE -op_in.k
diag_col_start == IF op_in.k >= 0 THEN op_in.k ELSE 0

\* the offset of the i-th element of the diagonal in the buffer of mat
diag_offset(i) == WrapperIndex(op_in.mat, diag_row_start + i, diag_col_start + i)

\* matrix_assign(mat, 0): the logical cells become zero
DiagCleared(buf) ==
  LET offs == {WrapperIndex(op_in.mat, r, c) :
                 r \in 0..(op_in.mat.size1 - 1), c \in 0..(op_in.mat.size2 - 1)}
  IN  [x \in 1..Len(buf) |-> IF (x - 1) \in offs THEN 0 ELSE buf[x]]

\* matrix_diag_from_vector up to its loop
DiagAssign ==
  /\ op_pc = "assign"
  /\ op_out' = [op_out EXCEPT !.A = DiagCleared(op_out.A)]
  /\ op_pc' = "from"
  /\ op_i' = 0
  /\ UNCHANGED op_in
  /\ UNCHANGED <<gemmVars, transVars, viewVars, lazyVars>>

\* wrapper_A(row_start + i, col_start + i) = data_vec[v_start + i * v_inc]
DiagFromStep ==
  /\ op_pc = "from"
  /\ op_i < op_in.vec.size
  /\ op_out' = [op_out EXCEPT
       !.A = Stored(op_out.A, diag_offset(op_i), VecElem(op_in.data_vec, op_in.vec, op_i)),
       !.oob = op_out.oob \/ diag_offset(op_i) >= Len(op_out.A)]
  /\ op_i' = op_i + 1
  /\ UNCHANGED <<op_in, op_pc>>
  /\ UNCHANGED <<gemmVars, transVars, viewVars, lazyVars>>

\* matrix_diag_from_vector returns and matrix_diag_to_vector is called with
\* the same mat and k and a vector of the size of vec
DiagFromReturn ==
  /\ op_pc = "from"
  /\ op_i = op_in.vec.size
  /\ op_pc' = "to"
  /\ op_i' = 0
  /\ UNCHANGED <<op_in, op_out>>
  /\ UNCHANGED <<gemmVars, transVars, viewVars, lazyVars>>

\* data_vec[v_start + i * v_inc] = wrapper_A(row_start + i, col_start + i);
\* a load past the end of the buffer gives whatever is there
DiagToStep ==
  /\ op_pc = "to"
  /\ op_i < op_in.w.size
  /\ \E value \in (IF diag_offset(op_i) < Len(op_out.A)
                   THEN {op_out.A[diag_offset(op_i) + 1]} ELSE Garbage) :
       op_out' = [op_out EXCEPT
         !.w = Stored(op_out.w, VecIndex(op_in.w, op_i), value),
         !.oob = op_out.oob \/ diag_offset(op_i) >= Len(op_out.A)]
  /\ op_i' = op_i + 1
  /\ UNCHANGED <<op_in, op_pc>>
  /\ UNCHANGED <<gemmVars, transVars, viewVars, lazyVars>>

DiagToReturn ==
  /\ op_pc = "to"
  /\ op_i = op_in.w.size
  /\ op_pc' = "returned"
  /\ UNCHANGED <<op_in, op_i, op_out>>
  /\ UNCHANGED <<gemmVars, transVars, viewVars, lazyVars>>

\* whole matrices of 2 x 2, 3 x 3 and 3 x 2 elements and a slice of 3 x 3
DiagViews ==
  UNION {{PlainView(rm, 2, 2), PlainView(rm, 3, 3), PlainView(rm, 3, 2),
          SliceView(rm, 3, 3)} : rm \in BOOLEAN}

\* the largest |k|
MaxDiag == 2

DiagCalls ==
  {[op |-> "diag", mat |-> mat, A0 |-> ElemPatternA(BufLen(mat)), k |-> k,
    vec |-> VecView(vstart, vinc, n),
    data_vec |-> MvPatternX(VecBufLen(VecView(vstart, vinc, n))),
    w |-> VecView(wstart, 1, n),
    W0 |-> MvPatternR(VecBufLen(VecView(wstart, 1, n)))] :
     mat \in DiagViews, k \in (-MaxDiag)..MaxDiag, n \in 1..MaxViewDim,
     vstart \in 0..MaxStart, vinc \in 1..MaxStride, wstart \in 0..MaxStart}

InitDiag ==
  /\ op_in \in DiagCalls
  /\ op_pc = "assign"
  /\ op_i = 0
  /\ op_out = [A |-> op_in.A0, w |-> op_in.W0, oob |-> FALSE]
  /\ GemmIdle /\ TransIdle /\ ViewIdle /\ LazyIdle

NextDiag ==
  DiagAssign \/ DiagFromStep \/ DiagFromReturn \/ DiagToStep \/ DiagToReturn

\* M = diag(v, k) followed by w = diag(M, k)
SpecDiag == InitDiag /\ [][NextDiag]_vars

\* the diagonal of size(v) elements lies inside the logical cells of M
DiagFits ==
  /\ diag_row_start + op_in.vec.size <= op_in.mat.size1
  /\ diag_col_start + op_in.vec.size <= op_in.mat.size2

\* C27: for every vector v and diagonal index k, matrix_diag_from_vector(v, k,
\* M) leaves every logical cell of M zero except M(r0+i, c0+i) = v[i] for
\* i < size(v), where (r0, c0) = (0, k) for k >= 0 and (-k, 0) for k < 0, and
\* matrix_diag_to_vector(M, k, w) then gives w[i] = v[i] for all i < size(v),
\* in both layouts.
C27_DiagRoundTrip ==
  /\ op_pc \in {"to", "returned"} =>
       /\ ~op_out.oob
       /\ \A r \in 0..(op_in.mat.size1 - 1) : \A c \in 0..(op_in.mat.size2 - 1) :
            Elem(op_out.A, op_in.mat, r, c) =
              IF r - diag_row_start = c - diag_col_start
                 /\ r >= diag_row_start /\ c >= diag_col_start
                 /\ r - diag_row_start < op_in.vec.size
              THEN VecElem(op_in.data_vec, op_in.vec, r - diag_row_start)
              ELSE 0
  /\ op_pc = "returned" =>
       \A i \in 0..(op_in.vec.size - 1) :
         VecElem(op_out.w, op_in.w, i) = VecElem(op_in.data_vec, op_in.vec, i)

----------------------------------------------------------------------------
(* The operand ranges of the micro-kernel calls. *)

\* iteration c calls the micro-kernel in this step
KernelStep(c) ==
  /\ c \in DOMAIN task /\ c \in DOMAIN task'
  /\ task[c].pc = "kernel" /\ task'[c].pc = "write"

\* the ranges the call reads and writes lie inside the buffers of iteration c
OperandsInside(c) ==
  LET t     == task[c]
      count == Min(gin.kc, k_size - t.A2B1_idx * gin.kc)
  IN  /\ count = num_micros_slivers(t.A2B1_idx)
      /\ DOMAIN t.buffer_A = 0..(gin.mc * gin.kc - 1)
      /\ DOMAIN t.buffer_B = 0..(gin.kc * gin.nc - 1)
      /\ t.sliver_A_idx * gin.mr * gin.kc + gin.mr * count <= Cardinality(DOMAIN t.buffer_A)
      /\ t.sliver_B_idx * gin.nr * gin.kc + gin.nr * count <= Cardinality(DOMAIN t.buffer_B)
      /\ DOMAIN t.buffer_C = 0..(gin.mr * gin.nr - 1)
      /\ DOMAIN task'[c].buffer_C = DOMAIN t.buffer_C

\* C28: given mc mod mr = 0 and nc mod nr = 0, for every micro-kernel call
\* sliver_A_idx*mr*kc + mr*count <= mc*kc and
\* sliver_B_idx*nr*kc + nr*count <= kc*nc with count = min(kc, k - k_block*kc),
\* and the accumulator range is exactly mr*nr elements.
C28_KernelOperandsInside ==
  [][BlockSizesOk => \A c \in DOMAIN task : KernelStep(c) => OperandsInside(c)]_vars

\* the micro-kernel has run on the last sliver of a full block of A and on a
\* sliver of B that is not the first, over a full k-block
C28_Witness ==
  \E c \in DOMAIN task :
    /\ task[c].pc = "write"
    /\ num_slivers_A >= 2 /\ task[c].sliver_A_idx = num_slivers_A - 1
    /\ task[c].sliver_B_idx >= 1
    /\ num_micros_slivers(task[c].A2B1_idx) = gin.kc

====
